---- MODULE Spec2Model ----
(***************************************************************************)
(* Model of the rook launcher's search engine: the fuzzy ranker            *)
(* (sort_applications / resolve_same_score), the desktop-file, programs    *)
(* and arithmetic providers, the PATH-binary deduplication, the launch     *)
(* executor, the providers' UI projection, the dispatch of a query to the  *)
(* registered modules, the caret navigation, the desktop-file scan and     *)
(* parser, and the selection of the results list.                          *)
(*                                                                         *)
(* Strings are tuples of one-character strings, so that lower-casing,      *)
(* whitespace splitting, trimming and substring tests are computed the way *)
(* the Rust code computes them.  Vec indices are 1-based here (Rust's      *)
(* index i is i+1); an index is only ever used as an identity.             *)
(***************************************************************************)
EXTENDS Integers, Sequences, FiniteSets, TLC

VARIABLES
    apps,        \* sort_applications: the candidate list (names)
    query,       \* sort_applications: the query
    scoreTab,    \* the nucleo matcher's score of each lower-cased name
    output,      \* the Vec<ScoredResult> returned by the last call
    prevOutput,  \* the Vec<ScoredResult> returned by the call before it
    calls,       \* number of sort_applications calls made
    mdEquations, \* modules::maths MathsModule.data.equations (front first)
    mdResults,   \* modules::maths MathsModule.state.results
    mdQuery,     \* the query of the last on_search call
    mdRet,       \* what the last on_search call returned
    mdSearches,  \* number of on_search calls made
    smEquations, \* search_modules::maths MathsModule.data.equations (front first)
    smQuery,     \* the query of the last search call
    smRet,       \* what the last search call returned
    smSearches,  \* number of search calls made
    ddResults,         \* modules DesktopFilesModule.state.search.results
    ddPreviousQuery,   \* ... state.search.previous_query
    ddPreviousResults, \* ... state.search.previous_results
    ddSelected,        \* ... state.ui selected result index (None: unset)
    ddQuery,           \* the query of the last on_search call
    ddRet,             \* what the last on_search call returned
    ddSearches,        \* number of on_search calls made
    desktopFiles,  \* find_programs: what find_desktop_files() returned
    binaries,      \* find_programs: the file names read from /usr/bin
    programs,      \* find_programs: the Vec<Application> it returned
    scanned,       \* find_programs has returned
    launchApp,         \* Application::launch: the application (self)
    launchEnvTerminal, \* the environment's $TERMINAL (<<>>: unset)
    launchVariant,     \* which Application::launch is running
    launchPc,          \* the launching thread's position
    launchArgv,        \* program and arguments handed to Command::spawn
    launchSpawn,       \* what spawn returned ("none": not called)
    launchRet,         \* what launch returned
    launchChild,       \* the spawned child process
    launchWaited,      \* milliseconds launch slept before returning
    uiProvider,      \* the provider the front end is talking to
    sdDatabase,      \* DesktopFilesModule.database is Some
    sdDataSome,      \* DesktopFilesModule.data is Some
    sdApplications,  \* ... data.applications
    sdResults,       \* ... results
    sdRet,           \* what the provider's last call returned
    sdSearches,      \* number of search calls made
    sdQuery,         \* the query of the provider's last search call
    sdInits,         \* number of init calls made
    uiResults,       \* the Vec<ListResult> of the last get_ui_results call
    uiPrevious,      \* the Vec<ListResult> of the call before it, kept while the provider is not called
    uiViews,         \* number of get_ui_results / get_results calls made
    uiAt,            \* provider calls made when uiResults was taken
    uiPreviousAt,    \* provider calls made when uiPrevious was taken (None: not kept)
    uiHeld,          \* a ListResult the front end keeps (<<>>: none)
    uiShown,         \* the application that ListResult was built from
    uiLaunched,      \* the application its launch callable launched
    hsModules,        \* handle_search: number of registered modules
    hsQuery,          \* state.search.query
    hsCaret,          \* state.ui.search_box_state.caret_position
    hsTick,           \* state.tick
    hsLastSearchTick, \* state.ui.*.last_search_tick
    hsSelected,       \* state.ui selected result index
    hsCalls,          \* the on_search calls made by the last Execute, in order
    hsCandidates,     \* what the last handle_search returned
    hsExecutes,       \* number of Search::Execute events handled
    hsOverflowChecks, \* the build checks integer overflow (debug profile)
    hsArith,          \* "ok", or what an overflowing usize operation did
    scFiles,    \* find_desktop_files: the directory entries
    scApps,     \* find_desktop_files: the Vec<Application> it returned
    scOutcome,  \* find_desktop_files: "none", "returned" or "panic"
    rbResults,     \* ResultsBox.results: the number of results it holds
    rbFocused,     \* ResultsBox.focused
    lsSelected,    \* ListState.selected (None: unset)
    lsResultsSome, \* ListState.results is Some
    lsResults,     \* ListState.results: the number of results it holds
    lsOutcome,     \* what the last key or mouse handler did
    lsExecuted     \* the index of the result the last ItemExecute carried

rankVars == <<apps, query, scoreTab, output, prevOutput, calls>>
mdMathsVars == <<mdEquations, mdResults, mdQuery, mdRet, mdSearches>>
smMathsVars == <<smEquations, smQuery, smRet, smSearches>>

mdDesktopVars == <<ddResults, ddPreviousQuery, ddPreviousResults, ddSelected,
                   ddQuery, ddRet, ddSearches>>

programVars == <<desktopFiles, binaries, programs, scanned>>

launchVars == <<launchApp, launchEnvTerminal, launchVariant, launchPc, launchArgv,
                launchSpawn, launchRet, launchChild, launchWaited>>

smDesktopVars == <<sdDatabase, sdDataSome, sdApplications, sdResults, sdRet,
                   sdSearches, sdQuery, sdInits>>

uiVars == <<uiProvider, uiResults, uiPrevious, uiViews, uiAt, uiPreviousAt,
            uiHeld, uiShown, uiLaunched>>

dispatchVars == <<hsModules, hsQuery, hsCaret, hsTick, hsLastSearchTick,
                  hsSelected, hsCalls, hsCandidates, hsExecutes, hsOverflowChecks,
                  hsArith>>

scanVars == <<scFiles, scApps, scOutcome>>

listVars == <<rbResults, rbFocused, lsSelected, lsResultsSome, lsResults, lsOutcome, lsExecuted>>

frontEndVars == <<launchVars, smDesktopVars, uiVars, dispatchVars, scanVars, listVars>>

vars == <<rankVars, mdMathsVars, smMathsVars, mdDesktopVars, programVars, frontEndVars>>

\* ----------------------------------------------------------------- bounds
MaxApps == 3
MaxCalls == 2
MaxMathSearches == 3
MaxInserts == 102
MaxProviderApps == 2
MaxProviderSearches == 2
MaxDesktopFiles == 2
MaxBinaries == 2

\* The u16 score type of ScoredResult.
U16Modulus == 65536
\* The raw score the source's comment uses for its example ("[88, zen browser]").
BaseScore == 88

\* Option::None of an Option<u16> / Option<usize>
None == -1

\* ------------------------------------------------------- string helpers
Str1(a) == <<a>>
Str2(a, b) == <<a, b>>
Str3(a, b, c) == <<a, b, c>>
Str4(a, b, c, d) == <<a, b, c, d>>

\* char::to_lowercase on the letters the model uses
ToLowerChar(c) ==
    CASE c = "Z" -> "z"
      [] c = "B" -> "b"
      [] OTHER -> c

\* str::to_lowercase
ToLowercase(s) == [i \in 1..Len(s) |-> ToLowerChar(s[i])]

IsWhitespace(c) == c = " "

\* str::split_whitespace: the maximal runs of non-whitespace characters
RECURSIVE SplitFrom(_, _, _)
SplitFrom(s, i, cur) ==
    IF i > Len(s)
    THEN IF cur = <<>> THEN <<>> ELSE <<cur>>
    ELSE IF IsWhitespace(s[i])
         THEN (IF cur = <<>> THEN <<>> ELSE <<cur>>) \o SplitFrom(s, i + 1, <<>>)
         ELSE SplitFrom(s, i + 1, Append(cur, s[i]))

SplitWhitespace(s) == SplitFrom(s, 1, <<>>)

\* needle is a (not necessarily contiguous) subsequence of haystack
RECURSIVE IsSubsequence(_, _)
IsSubsequence(needle, haystack) ==
    IF needle = <<>> THEN TRUE
    ELSE IF haystack = <<>> THEN FALSE
    ELSE IF Head(needle) = Head(haystack)
         THEN IsSubsequence(Tail(needle), Tail(haystack))
         ELSE IsSubsequence(needle, Tail(haystack))

\* all sequences over S of length 0..n
SeqsUpTo(S, n) == UNION {[1..k -> S] : k \in 0..n}

\* all orders in which the elements of a finite set can be enumerated
RECURSIVE PermSeqs(_)
PermSeqs(S) ==
    IF S = {} THEN {<<>>}
    ELSE UNION {{<<x>> \o p : p \in PermSeqs(S \ {x})} : x \in S}

\* ------------------------------------------------------ candidate inputs
NameSet ==
    { Str3("Z", " ", "b"),      \* "Z b"  : tokens "z" and "b"
      Str2("z", "b"),           \* "zb"
      Str3("z", "b", "b"),      \* "zbb"
      Str1("z"),                \* "z"
      Str1("b") }               \* "b"

LowerNames == {ToLowercase(n) : n \in NameSet}

QuerySet == {Str1("z"), Str1("b")}

RawScores == {BaseScore, BaseScore + 1}

\* ------------------------------------------------------------ the ranker

\* matcher.fuzzy_match(haystack = lower-cased name, needle = query): None
\* when the query is not a subsequence of the name, else the matcher's
\* score for that name.
fuzzy_match(tab, nameLower, q) ==
    IF IsSubsequence(q, nameLower) THEN tab[nameLower] ELSE None

HasExactToken(nameLower, queryLower) ==
    \E k \in 1..Len(SplitWhitespace(nameLower)) :
        SplitWhitespace(nameLower)[k] = queryLower

resolve_same_score(app_1, app_2, q) ==
    LET app_1_name == ToLowercase(app_1)
        app_2_name == ToLowercase(app_2)
        query_lower == ToLowercase(q)
        app_1_exact == HasExactToken(app_1_name, query_lower)
        app_2_exact == HasExactToken(app_2_name, query_lower)
    IN  IF app_1_exact /\ ~app_2_exact THEN 1
        ELSE IF app_2_exact /\ ~app_1_exact THEN -1
        ELSE IF Len(app_1_name) < Len(app_2_name) THEN 1
        ELSE IF Len(app_2_name) < Len(app_1_name) THEN -1
        ELSE 0

\* a push that lands one bucket above the key it was given
PushEntryAbove(results, key, x) ==
    IF key + 1 \in DOMAIN results
    THEN [results EXCEPT ![key + 1] = Append(@, x)]
    ELSE results @@ ((key + 1) :> <<x>>)


\* results.entry(key).or_default().push(x)
PushEntry(results, key, x) ==
    IF key \in DOMAIN results
    THEN [results EXCEPT ![key] = Append(@, x)]
    ELSE results @@ (key :> <<x>>)

\* the loop over the colliding bucket: the position of the first member that
\* beats the current candidate (the loop breaks there), and whether the
\* current candidate beat a member visited before that
\* a loop without its break: the last member that beats the candidate is kept
FirstExistingBeatsLast(bucket, list, index, q) ==
    LET hits == {k \in 1..Len(bucket) :
                    resolve_same_score(list[bucket[k]], list[index], q) > 0}
    IN  IF hits = {} THEN Len(bucket) + 1
        ELSE CHOOSE k \in hits : \A j \in hits : k >= j

FirstExistingBeats(bucket, list, index, q) ==
    LET hits == {k \in 1..Len(bucket) :
                    resolve_same_score(list[bucket[k]], list[index], q) > 0}
    IN  IF hits = {} THEN Len(bucket) + 1
        ELSE CHOOSE k \in hits : \A j \in hits : k <= j

CurrentBeatsExisting(bucket, list, index, q) ==
    \E k \in 1..Len(bucket) :
        /\ k < FirstExistingBeats(bucket, list, index, q)
        /\ resolve_same_score(list[bucket[k]], list[index], q) < 0

\* the loop body with the retain left out: the promoted member stays in its
\* old bucket as well
InsertCandidateKeeping(results, list, index, q, tab) ==
    LET score == fuzzy_match(tab, ToLowercase(list[index]), q)
    IN  IF score = None THEN results
        ELSE IF score \notin DOMAIN results THEN results @@ (score :> <<index>>)
        ELSE
            LET bucket == results[score]
                first == FirstExistingBeats(bucket, list, index, q)
                promoted == (score + 1) % U16Modulus
            IN  IF CurrentBeatsExisting(bucket, list, index, q)
                THEN PushEntry(results, promoted, index)
                ELSE IF first <= Len(bucket)
                THEN LET best_existing == bucket[first]
                         moved == PushEntry(results, promoted, best_existing)
                     IN  [moved EXCEPT ![score] = Append(@, index)]
                ELSE [results EXCEPT ![score] = Append(@, index)]


\* one iteration of the for loop of sort_applications
InsertCandidate(results, list, index, q, tab) ==
    LET score == fuzzy_match(tab, ToLowercase(list[index]), q)
    IN  IF score = None THEN results
        ELSE IF score \notin DOMAIN results THEN results @@ (score :> <<index>>)
        ELSE
            LET bucket == results[score]
                first == FirstExistingBeats(bucket, list, index, q)
                promoted == (score + 1) % U16Modulus
            IN  IF CurrentBeatsExisting(bucket, list, index, q)
                THEN PushEntry(results, promoted, index)
                ELSE IF first <= Len(bucket)
                THEN LET best_existing == bucket[first]
                         retained == [results EXCEPT ![score] =
                                         SelectSeq(@, LAMBDA i : i # best_existing)]
                         moved == PushEntry(retained, promoted, best_existing)
                     IN  [moved EXCEPT ![score] = Append(@, index)]
                ELSE [results EXCEPT ![score] = Append(@, index)]

\* the HashMap<u16, Vec<usize>> after the first n candidates
RECURSIVE BucketsAfter(_, _, _, _)
BucketsAfter(list, n, q, tab) ==
    IF n = 0 THEN <<>>
    ELSE InsertCandidate(BucketsAfter(list, n - 1, q, tab), list, n, q, tab)

\* "for (score, idxs) in results": the buckets visited in the given order
RECURSIVE Flatten(_, _)
Flatten(results, order) ==
    IF order = <<>> THEN <<>>
    ELSE [k \in 1..Len(results[Head(order)]) |->
             [index |-> results[Head(order)][k], score |-> Head(order)]]
         \o Flatten(results, Tail(order))

\* a comparator written the wrong way round (a.score.cmp(&b.score)): ascending
RECURSIVE InsertSortedAscending(_, _)
InsertSortedAscending(sorted, r) ==
    IF sorted = <<>> THEN <<r>>
    ELSE IF Head(sorted).score <= r.score
         THEN <<Head(sorted)>> \o InsertSortedAscending(Tail(sorted), r)
         ELSE <<r>> \o sorted

\* output.sort_by(|a, b| b.score.cmp(&a.score)): a stable sort, descending
RECURSIVE InsertSorted(_, _)
InsertSorted(sorted, r) ==
    IF sorted = <<>> THEN <<r>>
    ELSE IF Head(sorted).score >= r.score
         THEN <<Head(sorted)>> \o InsertSorted(Tail(sorted), r)
         ELSE <<r>> \o sorted

\* the final sort left out: the output keeps the hash map's iteration order
SortByScoreDescOmitted(out) == out

RECURSIVE SortByScoreDesc(_)
SortByScoreDesc(out) ==
    IF out = <<>> THEN <<>>
    ELSE InsertSorted(SortByScoreDesc(SubSeq(out, 1, Len(out) - 1)), out[Len(out)])

\* sort_applications(apps, query), the hash map being iterated in `order`
sort_applications(list, q, tab, order) ==
    SortByScoreDesc(Flatten(BucketsAfter(list, Len(list), q, tab), order))

\* the orders in which the hash map of a call can be iterated
IterationOrders(list, q, tab) ==
    PermSeqs(DOMAIN BucketsAfter(list, Len(list), q, tab))

\* ------------------------------------------------ arithmetic providers
\* VecDeque capacity kept by both arithmetic providers
HistoryCap == 100
\* search_modules::maths: the index handed to VecDeque::split_off
SplitOffAt == 99

Digits == {"0", "1", "2", "3", "4", "5", "6", "7", "8", "9"}
Operators == {"+", "-", "*", "/"}

DigitValue(c) ==
    CASE c = "0" -> 0 [] c = "1" -> 1 [] c = "2" -> 2 [] c = "3" -> 3
      [] c = "4" -> 4 [] c = "5" -> 5 [] c = "6" -> 6 [] c = "7" -> 7
      [] c = "8" -> 8 [] c = "9" -> 9

DigitChar(d) ==
    CASE d = 0 -> "0" [] d = 1 -> "1" [] d = 2 -> "2" [] d = 3 -> "3"
      [] d = 4 -> "4" [] d = 5 -> "5" [] d = 6 -> "6" [] d = 7 -> "7"
      [] d = 8 -> "8" [] d = 9 -> "9"

\* str::trim
RECURSIVE TrimStart(_)
TrimStart(s) ==
    IF s # <<>> /\ IsWhitespace(Head(s)) THEN TrimStart(Tail(s)) ELSE s

RECURSIVE TrimEnd(_)
TrimEnd(s) ==
    IF s # <<>> /\ IsWhitespace(s[Len(s)])
    THEN TrimEnd(SubSeq(s, 1, Len(s) - 1)) ELSE s

Trim(s) == TrimEnd(TrimStart(s))

\* str::replace(" ", "")
RemoveSpaces(s) == SelectSeq(s, LAMBDA c : c # " ")

\* query.trim().replace(" ", "")
FormatQuery(q) == RemoveSpaces(Trim(q))

\* needle occurs in haystack as a contiguous substring
IsSubstring(needle, haystack) ==
    \E i \in 0..(Len(haystack) - Len(needle)) :
        SubSeq(haystack, i + 1, i + Len(needle)) = needle

\* value of a run of decimal digits
RECURSIVE DigitsValue(_)
DigitsValue(s) ==
    IF s = <<>> THEN 0
    ELSE 10 * DigitsValue(SubSeq(s, 1, Len(s) - 1)) + DigitValue(s[Len(s)])

\* f64::to_string of a non-negative integral value
RECURSIVE NatToString(_)
NatToString(n) ==
    IF n < 10 THEN <<DigitChar(n)>>
    ELSE Append(NatToString(n \div 10), DigitChar(n % 10))

\* str::parse::<f64>() succeeds: an optional sign and a run of digits (the
\* queries of the model have no '.', exponent, "inf" or "nan"); whitespace
\* is not accepted anywhere
ParsesAsF64(s) ==
    LET body == IF s # <<>> /\ Head(s) \in {"+", "-"} THEN Tail(s) ELSE s
    IN  /\ body # <<>>
        /\ \A i \in 1..Len(body) : body[i] \in Digits

\* ShuntingParser::parse_str succeeds: every character lexes to a token
\* (a digit or an operator); any other character is a bad token
ParseOk(f) == \A i \in 1..Len(f) : f[i] \in Digits \cup Operators

\* the operands of a sum: the runs of digits between '+' signs
RECURSIVE SplitOnPlus(_, _, _)
SplitOnPlus(f, i, cur) ==
    IF i > Len(f) THEN <<cur>>
    ELSE IF f[i] = "+" THEN <<cur>> \o SplitOnPlus(f, i + 1, <<>>)
    ELSE SplitOnPlus(f, i + 1, Append(cur, f[i]))

Operands(f) == SplitOnPlus(f, 1, <<>>)

\* MathContext::eval succeeds: every binary '+' has both operands and the
\* expression is not empty (the queries of the model use '+' only)
EvalOk(f) ==
    /\ \A i \in 1..Len(f) : f[i] \in Digits \cup {"+"}
    /\ \A k \in 1..Len(Operands(f)) : Operands(f)[k] # <<>>

RECURSIVE SumOperands(_)
SumOperands(ops) ==
    IF ops = <<>> THEN 0
    ELSE DigitsValue(Head(ops)) + SumOperands(Tail(ops))

\* the value MathContext::eval returns
EvalValue(f) == SumOperands(Operands(f))

\* formatted_query.contains(['+', '-', '*', '/'])
ContainsOperator(f) == \E i \in 1..Len(f) : f[i] \in Operators

Equation(expression, result, valid) ==
    [expression |-> expression, result |-> result, valid |-> valid]

\* the queries submitted to the arithmetic providers
MathQueries ==
    { <<>>,                          \* ""
      Str1(" "),                     \* " "
      Str2("4", "2"),                \* "42"
      Str3(" ", "4", "2"),           \* " 42"
      Str3("4", "2", " "),           \* "42 "
      Str4("4", "0", "+", "2"),      \* "40+2"
      Str3("0", "+", "2"),           \* "0+2"
      Str3("4", "+", "2"),           \* "4+2"
      Str2("4", "+"),                \* "4+"
      Str2("4", "$") }               \* "4$"

\* ---- modules::maths::MathsModule::on_search
\* the Equation `result` refers to after the parse / eval match
MdResultEquation(q) ==
    LET f == FormatQuery(q)
    IN  IF ParseOk(f) /\ EvalOk(f)
        THEN Equation(f, NatToString(EvalValue(f)), ~ParsesAsF64(q))
        ELSE Equation(f, Str1("x"), FALSE)

\* candidacy before the `if result.valid` block
MdCandidacy(q) ==
    LET f == FormatQuery(q)
    IN  IF ParseOk(f)
        THEN IF EvalOk(f) THEN ~ParsesAsF64(q) ELSE ContainsOperator(f)
        ELSE FALSE

\* push_front when valid, then pop_back above the capacity
MdPushed(equations, q) ==
    IF MdResultEquation(q).valid
    THEN <<MdResultEquation(q)>> \o equations
    ELSE equations

MdCapped(equations) ==
    IF Len(equations) > HistoryCap
    THEN SubSeq(equations, 1, Len(equations) - 1)
    ELSE equations

\* results_pointers: ScoredResult { index: idx, score: idx as u16 }
MdResultPointers(equations) ==
    [k \in 1..Len(equations) |-> [index |-> k, score |-> (k - 1) % U16Modulus]]

MdOnSearch(q) ==
    /\ mdQuery' = q
    /\ mdSearches' = mdSearches + 1
    /\ IF q = <<>>
       THEN /\ mdRet' = "false"
            /\ UNCHANGED <<mdEquations, mdResults>>
       ELSE /\ mdEquations' = MdCapped(MdPushed(mdEquations, q))
            /\ mdResults' = MdResultPointers(mdEquations')
            /\ mdRet' = IF MdCandidacy(q) \/ MdResultEquation(q).valid
                        THEN "true" ELSE "false"

\* ---- search_modules::maths::MathsModule::search
\* test_for_duplicate: an entry equal to the expression, or one that is a
\* substring of it (matcher.substring_match(expression, entry) > 0)
SmIsDuplicate(equations, expression) ==
    \E i \in 1..Len(equations) :
        \/ equations[i].expression = expression
        \/ /\ equations[i].expression # <<>>
           /\ IsSubstring(equations[i].expression, expression)

\* split_off(99) once the length exceeds the capacity: the first 99 stay
SmCapped(equations) ==
    IF Len(equations) > HistoryCap
    THEN SubSeq(equations, 1, SplitOffAt)
    ELSE equations

SmEquation(expression, result) == [expression |-> expression, result |-> result]

SmSearch(q) ==
    LET f == FormatQuery(q)
    IN  /\ smQuery' = q
        /\ smSearches' = smSearches + 1
        /\ IF q = <<>> \/ ~ParseOk(f) \/ ~EvalOk(f) \/ ParsesAsF64(q)
           THEN /\ smRet' = "err"
                /\ UNCHANGED smEquations
           ELSE IF SmIsDuplicate(smEquations, f)
           THEN /\ smRet' = "false"
                /\ UNCHANGED smEquations
           ELSE /\ smEquations' =
                       SmCapped(<<SmEquation(f, NatToString(EvalValue(f)))>> \o smEquations)
                /\ smRet' = "true"

MathsIdle ==
    /\ mdEquations = <<>>
    /\ mdResults = <<>>
    /\ mdQuery = <<>>
    /\ mdRet = "none"
    /\ mdSearches = 0
    /\ smEquations = <<>>
    /\ smQuery = <<>>
    /\ smRet = "none"
    /\ smSearches = 0

MdDesktopIdle ==
    /\ ddResults = <<>>
    /\ ddPreviousQuery = <<>>
    /\ ddPreviousResults = <<>>
    /\ ddSelected = None
    /\ ddQuery = <<>>
    /\ ddRet = "none"
    /\ ddSearches = 0

ProgramsIdle ==
    /\ desktopFiles = <<>>
    /\ binaries = <<>>
    /\ programs = <<>>
    /\ scanned = FALSE

\* the launch executor before any launch
NoApplication == [name |-> <<>>, execSome |-> FALSE, exec |-> <<>>, terminal |-> FALSE]

LaunchIdle ==
    /\ launchApp = NoApplication
    /\ launchEnvTerminal = <<>>
    /\ launchVariant = "none"
    /\ launchPc = "idle"
    /\ launchArgv = <<>>
    /\ launchSpawn = "none"
    /\ launchRet = "none"
    /\ launchChild = "none"
    /\ launchWaited = 0

\* DesktopFilesModule::new()
SmDesktopIdle ==
    /\ sdDatabase = FALSE
    /\ sdDataSome = FALSE
    /\ sdApplications = <<>>
    /\ sdResults = <<>>
    /\ sdRet = "none"
    /\ sdSearches = 0
    /\ sdQuery = <<>>
    /\ sdInits = 0

UiIdle ==
    /\ uiResults = <<>>
    /\ uiPrevious = <<>>
    /\ uiViews = 0
    /\ uiAt = 0
    /\ uiPreviousAt = 0
    /\ uiHeld = <<>>
    /\ uiShown = <<>>
    /\ uiLaunched = <<>>

DispatchIdle ==
    /\ hsModules = 0
    /\ hsQuery = <<>>
    /\ hsCaret = 0
    /\ hsTick = 0
    /\ hsLastSearchTick = 0
    /\ hsSelected = 0
    /\ hsCalls = <<>>
    /\ hsCandidates = <<>>
    /\ hsExecutes = 0
    /\ hsOverflowChecks = FALSE
    /\ hsArith = "ok"

ScanIdle ==
    /\ scFiles = <<>>
    /\ scApps = <<>>
    /\ scOutcome = "none"

\* ResultsBox::new() with ListState::default()
ListIdle ==
    /\ rbResults = 0
    /\ rbFocused = TRUE
    /\ lsSelected = None
    /\ lsResultsSome = FALSE
    /\ lsResults = 0
    /\ lsOutcome = "none"
    /\ lsExecuted = None

FrontEndIdle ==
    /\ LaunchIdle
    /\ SmDesktopIdle
    /\ uiProvider = "none"
    /\ UiIdle
    /\ ListIdle
    /\ DispatchIdle
    /\ ScanIdle

\* ----------------------------------------------------- ranker behaviours
RankIdle ==
    /\ apps = <<>>
    /\ query = <<>>
    /\ scoreTab = <<>>
    /\ output = <<>>
    /\ prevOutput = <<>>
    /\ calls = 0

InitRank ==
    /\ MathsIdle
    /\ MdDesktopIdle
    /\ FrontEndIdle
    /\ ProgramsIdle
    /\ apps \in SeqsUpTo(NameSet, MaxApps)
    /\ query \in QuerySet
    /\ scoreTab \in [LowerNames -> RawScores]
    /\ output = <<>>
    /\ prevOutput = <<>>
    /\ calls = 0

\* one call of sort_applications on the unmodified candidate list
SortCall ==
    /\ calls < MaxCalls
    /\ \E order \in IterationOrders(apps, query, scoreTab) :
          output' = sort_applications(apps, query, scoreTab, order)
    /\ prevOutput' = output
    /\ calls' = calls + 1
    /\ UNCHANGED <<apps, query, scoreTab, mdMathsVars, smMathsVars, mdDesktopVars, programVars,
                 frontEndVars>>

NextRank == SortCall

Spec == InitRank /\ [][NextRank]_vars

\* the ranker on longer candidate lists: four insertions are needed before a
\* bucket holds two members of different strength; the score tables are the
\* all-tied one and one that lifts the two longest names by one
MaxDeepApps == 4

TiedScores == [n \in LowerNames |-> BaseScore]

LiftedScores == [n \in LowerNames |-> IF Len(n) >= 2 /\ n[2] = "b" THEN BaseScore + 1 ELSE BaseScore]

InitRankDeep ==
    /\ MathsIdle
    /\ MdDesktopIdle
    /\ FrontEndIdle
    /\ ProgramsIdle
    /\ apps \in SeqsUpTo(NameSet, MaxDeepApps)
    /\ query \in QuerySet
    /\ scoreTab \in {TiedScores, LiftedScores}
    /\ output = <<>>
    /\ prevOutput = <<>>
    /\ calls = 0

SpecRankDeep == InitRankDeep /\ [][NextRank]_vars

\* the ranker on lists of up to five candidates that all have the same raw
\* score: a bucket keeps two members of different strength only after two
\* equal stronger members have passed through it
MaxTiedApps == 5

InitRankTied ==
    /\ MathsIdle
    /\ MdDesktopIdle
    /\ FrontEndIdle
    /\ ProgramsIdle
    /\ apps \in SeqsUpTo(NameSet, MaxTiedApps)
    /\ query \in QuerySet
    /\ scoreTab = TiedScores
    /\ output = <<>>
    /\ prevOutput = <<>>
    /\ calls = 0

SpecRankTied == InitRankTied /\ [][NextRank]_vars


\* ------------------------------------- modules::applications provider
\* the queries submitted to the application providers
ProviderQueries == QuerySet \cup {<<>>}

\* DesktopFilesModule::on_search(query), the ranker's hash map being iterated
\* in `order`
MdDesktopOnSearch(q, order) ==
    LET result == sort_applications(apps, q, scoreTab, order)
    IN  /\ ddQuery' = q
        /\ ddSearches' = ddSearches + 1
        /\ IF q = <<>>
           THEN /\ ddResults' = <<>>
                /\ ddRet' = "false"
                /\ UNCHANGED <<ddPreviousQuery, ddPreviousResults, ddSelected>>
           ELSE IF result = <<>>
           THEN /\ ddRet' = "false"
                /\ UNCHANGED <<ddResults, ddPreviousQuery, ddPreviousResults, ddSelected>>
           ELSE /\ ddPreviousQuery' = q
                /\ ddPreviousResults' = ddResults
                /\ ddResults' = result
                /\ ddSelected' = 0
                /\ ddRet' = "true"

InitMdDesktop ==
    /\ MathsIdle
    /\ MdDesktopIdle
    /\ FrontEndIdle
    /\ ProgramsIdle
    /\ apps \in SeqsUpTo(NameSet, MaxProviderApps)
    /\ scoreTab \in [LowerNames -> RawScores]
    /\ query = <<>>
    /\ output = <<>>
    /\ prevOutput = <<>>
    /\ calls = 0

MdDesktopSearchStep ==
    /\ ddSearches < MaxProviderSearches
    /\ \E q \in ProviderQueries :
         \E order \in IterationOrders(apps, q, scoreTab) :
            MdDesktopOnSearch(q, order)
    /\ UNCHANGED <<rankVars, mdMathsVars, smMathsVars, programVars,
                 frontEndVars>>

NextMdDesktop == MdDesktopSearchStep

SpecMdDesktop == InitMdDesktop /\ [][NextMdDesktop]_vars

\* ------------------------------------------ modules::programs scanner
\* the directory find_programs scans
BinDir == <<"/", "u", "s", "r", "/", "b", "i", "n">>

\* PathBuf of a directory entry: dir.join(file_name)
BinPath(fileName) == BinDir \o <<"/">> \o fileName

\* Path::file_stem: the file name up to its last '.', a leading '.' excepted
FileStem(fileName) ==
    LET dots == {i \in 2..Len(fileName) : fileName[i] = "."}
    IN  IF dots = {} THEN fileName
        ELSE SubSeq(fileName, 1, (CHOOSE i \in dots : \A j \in dots : j <= i) - 1)

\* str::replace(c, "")
RemoveChar(s, c) == SelectSeq(s, LAMBDA x : x # c)

\* truncated_name_1: the desktop entry's name, lower-cased, spaces removed
TruncatedDesktopName(name) == RemoveChar(ToLowercase(name), " ")

\* truncated_name_2: the binary's name, lower-cased, spaces, '-' and '_' removed
TruncatedProgramName(name) ==
    RemoveChar(RemoveChar(RemoveChar(ToLowercase(name), " "), "-"), "_")

\* the Application built for a directory entry
ProgramApp(fileName) == [name |-> FileStem(fileName), exec |-> BinPath(fileName)]

\* the `found` flag after the loop over the desktop entries
FoundInDesktopFiles(app, desktop) ==
    \E k \in 1..Len(desktop) :
        \/ IsSubstring(app.exec, desktop[k].exec)
        \/ TruncatedDesktopName(desktop[k].name) = TruncatedProgramName(app.name)

\* find_programs(): the directory entries, in order, that were not found
RECURSIVE find_programs(_, _)
find_programs(desktop, files) ==
    IF files = <<>> THEN <<>>
    ELSE (IF FoundInDesktopFiles(ProgramApp(Head(files)), desktop)
          THEN <<>> ELSE <<ProgramApp(Head(files))>>)
         \o find_programs(desktop, Tail(files))

\* desktop entries (name, exec) the scan can meet
DesktopEntrySet ==
    { [name |-> Str3("A", " ", "b"), exec |-> Str1("x")],
      [name |-> Str3("a", "-", "b"), exec |-> Str1("x")],
      [name |-> Str1("q"), exec |-> BinPath(Str1("c"))] }

\* file names the scan can meet in /usr/bin
BinaryNameSet ==
    { Str2("a", "b"), Str3("a", "-", "b"), Str3("a", "_", "b"),
      Str1("c"), Str3("d", ".", "e") }

\* a directory lists each file name once
DistinctSeqsUpTo(S, n) ==
    {f \in SeqsUpTo(S, n) : \A i, j \in 1..Len(f) : i # j => f[i] # f[j]}

InitPrograms ==
    /\ RankIdle
    /\ MathsIdle
    /\ MdDesktopIdle
    /\ FrontEndIdle
    /\ desktopFiles \in SeqsUpTo(DesktopEntrySet, MaxDesktopFiles)
    /\ binaries \in DistinctSeqsUpTo(BinaryNameSet, MaxBinaries)
    /\ programs = <<>>
    /\ scanned = FALSE

FindPrograms ==
    /\ ~scanned
    /\ programs' = find_programs(desktopFiles, binaries)
    /\ scanned' = TRUE
    /\ UNCHANGED <<desktopFiles, binaries, rankVars, mdMathsVars, smMathsVars,
                   mdDesktopVars,
                 frontEndVars>>

NextPrograms == FindPrograms

SpecPrograms == InitPrograms /\ [][NextPrograms]_vars

\* --------------------------------------------- arithmetic behaviours
InitMaths == RankIdle /\ MathsIdle /\ MdDesktopIdle /\ ProgramsIdle /\ FrontEndIdle

MdSearchStep ==
    /\ mdSearches < MaxMathSearches
    /\ \E q \in MathQueries : MdOnSearch(q)
    /\ UNCHANGED <<rankVars, smMathsVars, mdDesktopVars, programVars,
                 frontEndVars>>

SmSearchStep ==
    /\ smSearches < MaxMathSearches
    /\ \E q \in MathQueries : SmSearch(q)
    /\ UNCHANGED <<rankVars, mdMathsVars, mdDesktopVars, programVars,
                 frontEndVars>>

NextMathsMd == MdSearchStep
NextMathsSm == SmSearchStep

SpecMathsMd == InitMaths /\ [][NextMathsMd]_vars
SpecMathsSm == InitMaths /\ [][NextMathsSm]_vars

\* ---- the history under a long run of distinct valid equations
\* the n-th distinct expression: "100+0", "101+0", ... (all of one length, so
\* none is a substring of another)
DistinctExpr(n) == NatToString(100 + n) \o Str2("+", "0")

HistMdInsert ==
    /\ mdSearches < MaxInserts
    /\ MdOnSearch(DistinctExpr(mdSearches))
    /\ UNCHANGED <<rankVars, smMathsVars, mdDesktopVars, programVars,
                 frontEndVars>>

HistSmInsert ==
    /\ smSearches < MaxInserts
    /\ SmSearch(DistinctExpr(smSearches))
    /\ UNCHANGED <<rankVars, mdMathsVars, mdDesktopVars, programVars,
                 frontEndVars>>

NextHistoryMd == HistMdInsert
NextHistorySm == HistSmInsert

SpecHistoryMd == InitMaths /\ [][NextHistoryMd]_vars
SpecHistorySm == InitMaths /\ [][NextHistorySm]_vars

\* ------------------------------------------------- the launch executor
\* Exec field codes of the Desktop Entry Specification
EXEC_CODES ==
    {Str2("%", c) : c \in {"f", "F", "u", "U", "i", "c", "k", "d", "D", "n", "N", "v", "m"}}

Kitty == <<"k", "i", "t", "t", "y">>

DashE == Str2("-", "e")

XTerminalEmulator ==
    <<"x", "-", "t", "e", "r", "m", "i", "n", "a", "l", "-",
      "e", "m", "u", "l", "a", "t", "o", "r">>

GtkLaunch == <<"g", "t", "k", "-", "l", "a", "u", "n", "c", "h">>

\* file_name() of the application's desktop_file_path
DesktopFileName == <<"a", ".", "d", "e", "s", "k", "t", "o", "p">>

\* the sleeps before launch returns, in milliseconds
CmSettleDelay == 100
MdSettleDelay == 500

\* common::application: exec_parts, the split Exec string without field codes
CmExecParts(exec) == SelectSeq(SplitWhitespace(exec), LAMBDA e : e \notin EXEC_CODES)

\* common::application: the vector cmd (it is logged; only its head is used)
CmCmd(app) ==
    (IF app.terminal THEN <<Kitty, DashE>> ELSE <<>>) \o CmExecParts(app.exec)

\* common::application: Command::new(cmd[0]), no argument is ever added
CmArgv(app) == <<CmCmd(app)[1]>>

\* common::application: the value after spawn().is_err().then(|| { return false; }),
\* whose return leaves the closure, not launch
CmLaunchValue(spawn) == "true"

\* modules::applications: gtk-launch <desktop file name>
MdArgv(app) == <<GtkLaunch, DesktopFileName>>

\* applications.rs: $TERMINAL, else x-terminal-emulator
TerminalEmulator(env) == IF env # <<>> THEN env ELSE XTerminalEmulator

\* applications.rs: command and args, wrapped in the terminal when terminal
ApArgv(app, env) ==
    LET exec_parts == SplitWhitespace(app.exec)
    IN  IF app.terminal
        THEN <<TerminalEmulator(env), DashE>> \o exec_parts
        ELSE exec_parts

\* Child::wait in place of the sleep: it returns once the child has ended
WaitReturns(child) == child = "exited"

\* thread::sleep returns when its duration has passed, whatever the child does
SleepReturns(child) == TRUE

\* what the operating system answers to a spawn
SpawnResults == {"ok", "err"}

ChildAfter(result) == IF result = "ok" THEN "running" ELSE "none"

\* what the launch executor leaves alone
launchFrame ==
    <<rankVars, mdMathsVars, smMathsVars, mdDesktopVars, programVars,
      smDesktopVars, uiVars, dispatchVars, scanVars, listVars>>

\* common::application::Application::launch up to its sleep
CmLaunch ==
    /\ launchPc = "idle"
    /\ launchVariant' = "common"
    /\ IF ~launchApp.execSome \/ CmExecParts(launchApp.exec) = <<>>
       THEN /\ launchRet' = "false"
            /\ launchPc' = "returned"
            /\ UNCHANGED <<launchArgv, launchSpawn, launchChild>>
       ELSE /\ \E result \in SpawnResults :
                 /\ launchSpawn' = result
                 /\ launchChild' = ChildAfter(result)
            /\ launchArgv' = CmArgv(launchApp)
            /\ launchPc' = "settling"
            /\ UNCHANGED launchRet
    /\ UNCHANGED <<launchApp, launchEnvTerminal, launchWaited, launchFrame>>

\* ... the sleep and the final `true`
CmSettle ==
    /\ launchPc = "settling"
    /\ launchVariant = "common"
    /\ SleepReturns(launchChild)
    /\ launchWaited' = CmSettleDelay
    /\ launchRet' = CmLaunchValue(launchSpawn)
    /\ launchPc' = "returned"
    /\ UNCHANGED <<launchApp, launchEnvTerminal, launchVariant, launchArgv,
                   launchSpawn, launchChild, launchFrame>>

\* modules::applications::desktop::Application::launch up to its sleep
MdLaunch ==
    /\ launchPc = "idle"
    /\ launchApp.execSome
    /\ launchVariant' = "modules"
    /\ IF SplitWhitespace(launchApp.exec) = <<>>
       THEN /\ launchRet' = "Err"
            /\ launchPc' = "returned"
            /\ UNCHANGED <<launchArgv, launchSpawn, launchChild>>
       ELSE /\ launchArgv' = MdArgv(launchApp)
            /\ \E result \in SpawnResults :
                 /\ launchSpawn' = result
                 /\ launchChild' = ChildAfter(result)
                 /\ IF result = "ok"
                    THEN launchPc' = "settling" /\ UNCHANGED launchRet
                    ELSE launchPc' = "returned" /\ launchRet' = "Err"
    /\ UNCHANGED <<launchApp, launchEnvTerminal, launchWaited, launchFrame>>

\* ... the sleep and Ok(())
MdSettle ==
    /\ launchPc = "settling"
    /\ launchVariant = "modules"
    /\ SleepReturns(launchChild)
    /\ launchWaited' = MdSettleDelay
    /\ launchRet' = "Ok"
    /\ launchPc' = "returned"
    /\ UNCHANGED <<launchApp, launchEnvTerminal, launchVariant, launchArgv,
                   launchSpawn, launchChild, launchFrame>>

\* applications.rs Application::launch
ApLaunch ==
    /\ launchPc = "idle"
    /\ launchApp.execSome
    /\ launchVariant' = "legacy"
    /\ launchPc' = "returned"
    /\ IF SplitWhitespace(launchApp.exec) = <<>>
       THEN /\ launchRet' = "Err"
            /\ UNCHANGED <<launchArgv, launchSpawn, launchChild>>
       ELSE /\ launchArgv' = ApArgv(launchApp, launchEnvTerminal)
            /\ \E result \in SpawnResults :
                 /\ launchSpawn' = result
                 /\ launchChild' = ChildAfter(result)
                 /\ launchRet' = IF result = "ok" THEN "Ok" ELSE "Err"
    /\ UNCHANGED <<launchApp, launchEnvTerminal, launchWaited, launchFrame>>

\* the launched program ends, at a time of its own choosing
ChildExit ==
    /\ launchChild = "running"
    /\ launchChild' = "exited"
    /\ UNCHANGED <<launchApp, launchEnvTerminal, launchVariant, launchPc,
                   launchArgv, launchSpawn, launchRet, launchWaited, launchFrame>>

\* Exec strings: a bare program, one with a field code, one with an argument
\* and a field code, an empty one, and one made of a field code only
ExecSet ==
    { Str1("f"),
      Str4("f", " ", "%", "U"),
      <<"f", " ", "-", "n", " ", "%", "U">>,
      <<>>,
      Str2("%", "U") }

LaunchApps ==
    {[name |-> Str1("z"), execSome |-> TRUE, exec |-> e, terminal |-> t] :
        e \in ExecSet, t \in BOOLEAN}
    \cup {[name |-> Str1("z"), execSome |-> FALSE, exec |-> <<>>, terminal |-> t] :
            t \in BOOLEAN}

\* values of $TERMINAL: unset, or "st"
TerminalEnvSet == {<<>>, Str2("s", "t")}

InitLaunch ==
    /\ RankIdle
    /\ MathsIdle
    /\ MdDesktopIdle
    /\ ProgramsIdle
    /\ SmDesktopIdle
    /\ uiProvider = "none"
    /\ UiIdle
    /\ ListIdle
    /\ DispatchIdle
    /\ ScanIdle
    /\ launchApp \in LaunchApps
    /\ launchEnvTerminal \in TerminalEnvSet
    /\ launchVariant = "none"
    /\ launchPc = "idle"
    /\ launchArgv = <<>>
    /\ launchSpawn = "none"
    /\ launchRet = "none"
    /\ launchChild = "none"
    /\ launchWaited = 0

NextLaunch ==
    \/ CmLaunch
    \/ CmSettle
    \/ MdLaunch
    \/ MdSettle
    \/ ApLaunch
    \/ ChildExit

SpecLaunch == InitLaunch /\ [][NextLaunch]_vars

\* the launching thread is scheduled: its sleep ends and launch returns; the
\* child is under no obligation to end
SpecLaunchFair ==
    /\ InitLaunch
    /\ [][NextLaunch]_vars
    /\ WF_vars(CmSettle)
    /\ WF_vars(MdSettle)

\* ------------------------------------ providers and their UI projection
MaxViews == 2
MaxProviderCalls == 3

\* " = " of format!("{} = {}", ...)
EqualsSign == Str3(" ", "=", " ")

\* the application lists a provider can be given
ProviderAppLists ==
    LET a == [name |-> Str1("z"), execSome |-> TRUE, exec |-> Str1("f"), terminal |-> FALSE]
        b == [name |-> Str2("z", "b"), execSome |-> TRUE, exec |-> Str4("f", " ", "%", "U"),
              terminal |-> TRUE]
    IN  {<<>>, <<a>>, <<b>>, <<a, b>>, <<b, a>>}

\* the names sort_applications ranks
AppNames(applications) == [i \in 1..Len(applications) |-> applications[i].name]

\* calls made so far that can change a provider's state
ProviderCalls == mdSearches + smSearches + sdSearches + sdInits

\* modules::maths MathsModule::get_results: the provider's fields after the
\* call and the Vec<UIResult> it returns
MdGetResultsTaking(equations, results) ==
    [equations |-> equations,
     results |-> <<>>,
     out |-> <<>>]

MdGetResults(equations, results) ==
    LET shown == SelectSeq(results, LAMBDA r : equations[r.index].valid)
    IN  [equations |-> equations,
         results |-> results,
         out |-> [k \in 1..Len(shown) |->
                    [result |-> equations[shown[k].index].expression \o EqualsSign
                                  \o equations[shown[k].index].result,
                     score |-> shown[k].score,
                     launch |-> equations[shown[k].index]]]]

\* search_modules::maths MathsModule::get_ui_results
SmGetUiResults(equations) ==
    [equations |-> equations,
     out |-> [k \in 1..Len(equations) |->
                [result |-> equations[k].expression \o EqualsSign \o equations[k].result,
                 score |-> (k - 1) % U16Modulus,
                 launch |-> "false"]]]

\* an index of results that data.applications no longer has
StaleIndex(applications, results) ==
    \E k \in 1..Len(results) : results[k].index > Len(applications)

\* search_modules DesktopFilesModule::get_ui_results; both unwraps panic
SdGetUiResults(dataSome, applications, results) ==
    IF results # <<>> /\ (~dataSome \/ StaleIndex(applications, results))
    THEN [panic |-> TRUE, applications |-> applications, results |-> results, out |-> <<>>]
    ELSE [panic |-> FALSE,
          applications |-> applications,
          results |-> results,
          out |-> [k \in 1..Len(results) |->
                     [result |-> applications[results[k].index].name,
                      score |-> results[k].score,
                      launch |-> applications[results[k].index]]]]

\* modules::programs ProgramsModule::get_results
PgGetResults(applications, results) ==
    [applications |-> applications,
     results |-> results,
     out |-> [k \in 1..Len(results) |->
                [result |-> applications[results[k].index].name,
                 score |-> results[k].score,
                 launch |-> applications[results[k].index]]]]

\* re-reading the provider when the callable runs, in place of the captured clone
LaunchTargetByIndex(k, list, applications, results) ==
    IF k <= Len(results) /\ results[k].index <= Len(applications)
    THEN applications[results[k].index]
    ELSE NoApplication

\* the application the launch callable of list[k] launches: the clone the
\* closure moved in
LaunchTarget(k, list, applications, results) == list[k].launch

\* what the projection and the callables leave alone
providerFrame ==
    <<rankVars, mdDesktopVars, programVars, launchVars, dispatchVars, scanVars, listVars>>

\* bookkeeping of one projection call returning `out`
Viewed(out) ==
    /\ uiViews < MaxViews
    /\ uiResults' = out
    /\ uiPrevious' = IF uiViews >= 1 /\ uiAt = ProviderCalls THEN uiResults ELSE <<>>
    /\ uiViews' = uiViews + 1
    /\ uiAt' = ProviderCalls
    /\ uiPreviousAt' = IF uiViews >= 1 /\ uiAt = ProviderCalls THEN uiAt ELSE None
    /\ UNCHANGED <<uiProvider, uiHeld, uiLaunched>>

MdGetResultsStep ==
    /\ uiProvider = "md_maths"
    /\ LET r == MdGetResults(mdEquations, mdResults)
       IN  /\ mdEquations' = r.equations
           /\ mdResults' = r.results
           /\ Viewed(r.out)
    /\ uiShown' = <<>>
    /\ UNCHANGED <<mdQuery, mdRet, mdSearches, smMathsVars, smDesktopVars, providerFrame>>

SmGetUiResultsStep ==
    /\ uiProvider = "sm_maths"
    /\ LET r == SmGetUiResults(smEquations)
       IN  /\ smEquations' = r.equations
           /\ Viewed(r.out)
    /\ uiShown' = <<>>
    /\ UNCHANGED <<smQuery, smRet, smSearches, mdMathsVars, smDesktopVars, providerFrame>>

\* the applications results points at when the projection is taken
ShownNow == [k \in 1..Len(sdResults) |-> sdApplications[sdResults[k].index]]

SdGetUiResultsStep ==
    /\ uiProvider = "sm_desktop"
    /\ sdRet # "panic"
    /\ LET r == SdGetUiResults(sdDataSome, sdApplications, sdResults)
       IN  IF r.panic
           THEN /\ sdRet' = "panic"
                /\ UNCHANGED <<sdApplications, sdResults, uiVars>>
           ELSE /\ sdApplications' = r.applications
                /\ sdResults' = r.results
                /\ Viewed(r.out)
                /\ uiShown' = ShownNow
                /\ UNCHANGED sdRet
    /\ UNCHANGED <<sdDatabase, sdDataSome, sdSearches, sdQuery, sdInits, mdMathsVars, smMathsVars,
                   providerFrame>>

PgGetResultsStep ==
    /\ uiProvider = "md_programs"
    /\ LET r == PgGetResults(sdApplications, sdResults)
       IN  /\ sdApplications' = r.applications
           /\ sdResults' = r.results
           /\ Viewed(r.out)
    /\ uiShown' = ShownNow
    /\ UNCHANGED <<sdDatabase, sdDataSome, sdRet, sdSearches, sdQuery, sdInits, mdMathsVars,
                   smMathsVars, providerFrame>>

\* search_modules DesktopFilesModule::register_database_handler
SdRegisterDatabase ==
    /\ uiProvider = "sm_desktop"
    /\ sdRet # "panic"
    /\ ~sdDatabase
    /\ sdDatabase' = TRUE
    /\ UNCHANGED <<sdDataSome, sdApplications, sdResults, sdRet, sdSearches, sdQuery, sdInits,
                   uiVars, mdMathsVars, smMathsVars, providerFrame>>

\* search_modules DesktopFilesModule::init: data is replaced by what the
\* database lists at that moment
SdInit ==
    /\ uiProvider = "sm_desktop"
    /\ sdRet # "panic"
    /\ sdSearches + sdInits < MaxProviderCalls
    /\ sdInits' = sdInits + 1
    /\ IF ~sdDatabase
       THEN /\ sdRet' = "err"
            /\ UNCHANGED <<sdDataSome, sdApplications>>
       ELSE /\ \E db_applications \in ProviderAppLists :
                 sdApplications' = db_applications
            /\ sdDataSome' = TRUE
            /\ sdRet' = "ok"
    /\ UNCHANGED <<sdDatabase, sdResults, sdSearches, sdQuery, uiVars, mdMathsVars, smMathsVars,
                   providerFrame>>

\* search_modules DesktopFilesModule::search(query)
SdSearch(q, order) ==
    /\ sdSearches' = sdSearches + 1
    /\ sdQuery' = q
    /\ IF q = <<>>
       THEN /\ sdRet' = "false"
            /\ UNCHANGED sdResults
       ELSE IF ~sdDataSome
       THEN /\ sdRet' = "panic"
            /\ UNCHANGED sdResults
       ELSE LET result == sort_applications(AppNames(sdApplications), q, LiftedScores, order)
            IN  IF result = <<>>
                THEN /\ sdRet' = "false"
                     /\ UNCHANGED sdResults
                ELSE /\ sdResults' = result
                     /\ sdRet' = "true"

SdSearchStep ==
    /\ uiProvider = "sm_desktop"
    /\ sdRet # "panic"
    /\ sdSearches + sdInits < MaxProviderCalls
    /\ \E q \in ProviderQueries :
         \E order \in IterationOrders(AppNames(sdApplications), q, LiftedScores) :
            SdSearch(q, order)
    /\ UNCHANGED <<sdDatabase, sdDataSome, sdApplications, sdInits, uiVars, mdMathsVars,
                   smMathsVars, providerFrame>>

\* modules::programs ProgramsModule::on_search(query)
PgOnSearch(q, order) ==
    LET result == sort_applications(AppNames(sdApplications), q, LiftedScores, order)
    IN  /\ sdSearches' = sdSearches + 1
        /\ sdQuery' = q
        /\ IF q = <<>> \/ result = <<>>
           THEN /\ sdRet' = "false"
                /\ UNCHANGED sdResults
           ELSE /\ sdResults' = result
                /\ sdRet' = "true"

PgSearchStep ==
    /\ uiProvider = "md_programs"
    /\ sdSearches < MaxProviderCalls
    /\ \E q \in ProviderQueries :
         \E order \in IterationOrders(AppNames(sdApplications), q, LiftedScores) :
            PgOnSearch(q, order)
    /\ UNCHANGED <<sdDatabase, sdDataSome, sdApplications, sdInits, uiVars, mdMathsVars,
                   smMathsVars, providerFrame>>

\* the front end calls the launch callable of one of the results it was given
LaunchListed ==
    /\ uiProvider \in {"sm_desktop", "md_programs"}
    /\ sdRet # "panic"
    /\ uiLaunched = <<>>
    /\ \E k \in 1..Len(uiResults) :
          /\ uiHeld' = <<k, ProviderCalls>>
          /\ uiLaunched' = <<LaunchTarget(k, uiResults, sdApplications, sdResults)>>
    /\ UNCHANGED <<uiProvider, uiResults, uiPrevious, uiViews, uiAt, uiPreviousAt, uiShown,
                   smDesktopVars, mdMathsVars, smMathsVars, providerFrame>>

PvMdSearch == uiProvider = "md_maths" /\ MdSearchStep

PvSmSearch == uiProvider = "sm_maths" /\ SmSearchStep

InitProviders ==
    /\ RankIdle
    /\ MathsIdle
    /\ MdDesktopIdle
    /\ ProgramsIdle
    /\ LaunchIdle
    /\ DispatchIdle
    /\ ScanIdle
    /\ UiIdle
    /\ ListIdle
    /\ uiProvider \in {"md_maths", "sm_maths", "sm_desktop", "md_programs"}
    /\ sdDatabase = FALSE
    /\ sdResults = <<>>
    /\ sdRet = "none"
    /\ sdSearches = 0
    /\ sdQuery = <<>>
    /\ sdInits = 0
    /\ IF uiProvider = "md_programs"
       THEN /\ sdDataSome = TRUE
            /\ sdApplications \in ProviderAppLists
       ELSE /\ sdDataSome = FALSE
            /\ sdApplications = <<>>

NextProviders ==
    \/ PvMdSearch
    \/ PvSmSearch
    \/ MdGetResultsStep
    \/ SmGetUiResultsStep
    \/ SdRegisterDatabase
    \/ SdInit
    \/ SdSearchStep
    \/ SdGetUiResultsStep
    \/ PgSearchStep
    \/ PgGetResultsStep
    \/ LaunchListed

SpecProviders == InitProviders /\ [][NextProviders]_vars

\* ------------------------------------------- EventHandler::handle_search
MaxModules == 3
MaxExecutes == 2
MaxQueryLen == 2
MaxTicks == 1

\* characters typed into the search box
TypedChars == {"z", "b"}

\* amounts of Search::Remove: backspace by one or two, delete by one
RemoveAmounts == {-2, -1, 1}

Min(a, b) == IF a <= b THEN a ELSE b

\* SearchState::split_at_caret
PreQuery(q, caret) == SubSeq(q, 1, Min(caret, Len(q)))

PostQuery(q, caret) == SubSeq(q, Min(caret, Len(q)) + 1, Len(q))

\* usize::saturating_sub
SaturatingSub(a, b) == IF a >= b THEN a - b ELSE 0

\* a loop that stops dispatching once a module has reported candidacy
VisitsUntilCandidate(candidates) ==
    \A k \in 1..Len(candidates) : ~candidates[k].candidacy

\* for (i, m) in modules.iter_mut().enumerate(): no break, every module is visited
Visits(candidates) == TRUE

\* the loop of Search::Execute from module i on; candidacy[i] is what module
\* i's on_search returns; acc carries what the loop has written so far
RECURSIVE ExecuteFrom(_, _, _, _, _, _)
ExecuteFrom(i, n, q, tick, candidacy, acc) ==
    IF i > n \/ ~Visits(acc.candidates) THEN acc
    ELSE ExecuteFrom(i + 1, n, q, tick, candidacy,
            [calls |-> Append(acc.calls, [module |-> i, query |-> q]),
             candidates |-> Append(acc.candidates, [index |-> i, candidacy |-> candidacy[i]]),
             last_search_tick |-> IF candidacy[i] THEN tick ELSE acc.last_search_tick,
             selected |-> IF candidacy[i] THEN 0 ELSE acc.selected])

dispatchFrame ==
    <<rankVars, mdMathsVars, smMathsVars, mdDesktopVars, programVars, launchVars,
      smDesktopVars, uiVars, scanVars, listVars>>

\* handle_search(Action::Search(Search::Execute))
HandleSearchExecute ==
    /\ hsArith # "panic"
    /\ hsExecutes < MaxExecutes
    /\ hsExecutes' = hsExecutes + 1
    /\ \E candidacy \in [1..hsModules -> BOOLEAN] :
          LET r == ExecuteFrom(1, hsModules, hsQuery, hsTick, candidacy,
                               [calls |-> <<>>, candidates |-> <<>>,
                                last_search_tick |-> hsLastSearchTick,
                                selected |-> hsSelected])
          IN  /\ hsCalls' = r.calls
              /\ hsCandidates' = r.candidates
              /\ hsLastSearchTick' = r.last_search_tick
              /\ hsSelected' = r.selected
    /\ UNCHANGED <<hsModules, hsQuery, hsCaret, hsTick, hsOverflowChecks, hsArith,
                   dispatchFrame>>

\* handle_search(Action::Search(Search::Add(c)))
HandleSearchAdd ==
    /\ hsArith # "panic"
    /\ Len(hsQuery) < MaxQueryLen
    /\ \E c \in TypedChars :
          hsQuery' = PreQuery(hsQuery, hsCaret) \o <<c>> \o PostQuery(hsQuery, hsCaret)
    /\ hsCaret' = hsCaret + 1
    /\ hsCandidates' = <<>>
    /\ UNCHANGED <<hsModules, hsTick, hsLastSearchTick, hsSelected, hsCalls, hsExecutes,
                   hsOverflowChecks, hsArith, dispatchFrame>>

\* handle_search(Action::Search(Search::Remove(x)))
HandleSearchRemove ==
    /\ hsArith # "panic"
    /\ \E x \in RemoveAmounts :
          LET pre_query == PreQuery(hsQuery, hsCaret)
              post_query == PostQuery(hsQuery, hsCaret)
              chars_to_remove == IF x < 0 THEN -x ELSE x
          IN  IF x < 0
              THEN IF Len(pre_query) >= chars_to_remove
                   THEN /\ hsQuery' = SubSeq(pre_query, 1, Len(pre_query) - chars_to_remove)
                                        \o post_query
                        /\ hsCaret' = SaturatingSub(hsCaret, chars_to_remove)
                   ELSE IF pre_query # <<>>
                   THEN /\ hsQuery' = post_query
                        /\ hsCaret' = 0
                   ELSE UNCHANGED <<hsQuery, hsCaret>>
              ELSE IF Len(post_query) >= chars_to_remove
                   THEN /\ hsQuery' = pre_query
                                        \o SubSeq(post_query, chars_to_remove + 1, Len(post_query))
                        /\ UNCHANGED hsCaret
                   ELSE IF post_query # <<>>
                   THEN /\ hsQuery' = pre_query
                        /\ UNCHANGED hsCaret
                   ELSE UNCHANGED <<hsQuery, hsCaret>>
    /\ hsCandidates' = <<>>
    /\ UNCHANGED <<hsModules, hsTick, hsLastSearchTick, hsSelected, hsCalls, hsExecutes,
                   hsOverflowChecks, hsArith, dispatchFrame>>

\* the application loop advances state.tick
Tick ==
    /\ hsArith # "panic"
    /\ hsTick < MaxTicks
    /\ hsTick' = hsTick + 1
    /\ UNCHANGED <<hsModules, hsQuery, hsCaret, hsLastSearchTick, hsSelected, hsCalls,
                   hsCandidates, hsExecutes, hsOverflowChecks, hsArith, dispatchFrame>>

\* the amount every Navigate action carries
NavigateAmounts == {1}

\* `caret - amount` on usize: the subtraction overflows when caret < amount
SubOverflows(caret, amount) == caret < amount

\* `(caret - amount + 1) > 0` in a build that wraps: the wrapped sum is 0
\* exactly when caret + 1 = amount
LeftGuardWrapping(caret, amount) == caret + 1 # amount

\* `caret + amount < query.len() + 1`
RightGuard(caret, amount, q) == caret + amount < Len(q) + 1

\* EventHandler::handle_navigation for the directions that move the caret
\* (Up and Down move the result selection only)
HandleNavigation ==
    /\ hsArith # "panic"
    /\ \E direction \in {"Left", "Right", "Home", "End"}, amount \in NavigateAmounts :
          CASE direction = "Left" ->
                  IF SubOverflows(hsCaret, amount)
                  THEN IF hsOverflowChecks
                       THEN /\ hsArith' = "panic"
                            /\ UNCHANGED hsCaret
                       ELSE /\ hsArith' = "wrapped"
                            /\ LeftGuardWrapping(hsCaret, amount) = FALSE
                            /\ UNCHANGED hsCaret
                  ELSE /\ hsCaret' = IF LeftGuardWrapping(hsCaret, amount)
                                     THEN hsCaret - amount ELSE hsCaret
                       /\ UNCHANGED hsArith
            [] direction = "Right" ->
                  /\ hsCaret' = IF RightGuard(hsCaret, amount, hsQuery)
                                THEN hsCaret + amount ELSE hsCaret
                  /\ UNCHANGED hsArith
            [] direction = "Home" ->
                  /\ hsCaret' = 0
                  /\ UNCHANGED hsArith
            [] direction = "End" ->
                  /\ hsCaret' = Len(hsQuery)
                  /\ UNCHANGED hsArith
    /\ UNCHANGED <<hsModules, hsQuery, hsTick, hsLastSearchTick, hsSelected, hsCalls,
                   hsCandidates, hsExecutes, hsOverflowChecks, dispatchFrame>>

InitDispatch ==
    /\ RankIdle
    /\ MathsIdle
    /\ MdDesktopIdle
    /\ ProgramsIdle
    /\ LaunchIdle
    /\ SmDesktopIdle
    /\ uiProvider = "none"
    /\ UiIdle
    /\ ListIdle
    /\ ScanIdle
    /\ hsModules \in 0..MaxModules
    /\ hsQuery = <<>>
    /\ hsCaret = 0
    /\ hsTick = 0
    /\ hsLastSearchTick = 0
    /\ hsSelected = 0
    /\ hsCalls = <<>>
    /\ hsCandidates = <<>>
    /\ hsExecutes = 0
    /\ hsOverflowChecks \in BOOLEAN
    /\ hsArith = "ok"

NextDispatch ==
    \/ HandleSearchExecute
    \/ HandleSearchAdd
    \/ HandleSearchRemove
    \/ HandleNavigation
    \/ Tick

SpecDispatch == InitDispatch /\ [][NextDispatch]_vars

\* --------------------------------------------- the desktop-file scan
MaxScanFiles == 2

\* lines met in .desktop files
LineDesktopEntry == <<"[", "D", "e", "s", "k", "t", "o", "p", " ", "E", "n", "t", "r", "y", "]">>

LineOtherSection == <<"[", "X", "]">>

LineName == <<"N", "a", "m", "e", "=", "z">>

LineExec == <<"E", "x", "e", "c", "=", "f", " ", "%", "U">>

LineExecOther == <<"E", "x", "e", "c", "=", "g">>

LineExecEmpty == <<"E", "x", "e", "c", "=">>

LineTerminal == <<"T", "e", "r", "m", "i", "n", "a", "l", "=", "t", "r", "u", "e">>

LineComment == <<"#", "c">>

KeyName == <<"N", "a", "m", "e">>

KeyExec == <<"E", "x", "e", "c">>

KeyTerminal == <<"T", "e", "r", "m", "i", "n", "a", "l">>

ValueTrue == <<"t", "r", "u", "e">>

UnknownName == <<"U", "n", "k", "n", "o", "w", "n">>

ExampleCommand == <<"e", "x", "a", "m", "p", "l", "e", "-", "c", "o", "m", "m", "a", "n", "d">>

\* str::starts_with / str::ends_with on one character
StartsWith(line, c) == line # <<>> /\ line[1] = c

EndsWith(line, c) == line # <<>> /\ line[Len(line)] = c

\* line.split_once('=').unwrap_or((line, ""))
SplitOnceEquals(line) ==
    LET at == {i \in 1..Len(line) : line[i] = "="}
    IN  IF at = {} THEN [k |-> line, v |-> <<>>]
        ELSE LET first == CHOOSE i \in at : \A j \in at : i <= j
             IN  [k |-> SubSeq(line, 1, first - 1),
                  v |-> SubSeq(line, first + 1, Len(line))]

\* the loop of parse_desktop_file over content.lines(), from line i on; no
\* line of the model has the key MimeType, whose value is re-joined
RECURSIVE OptionsFrom(_, _, _)
OptionsFrom(lines, i, options) ==
    IF i > Len(lines) THEN options
    ELSE LET line == lines[i]
         IN  IF StartsWith(line, "#") \/ Trim(line) = <<>>
             THEN OptionsFrom(lines, i + 1, options)
             ELSE IF StartsWith(line, "[") /\ EndsWith(line, "]")
             THEN IF line # LineDesktopEntry
                  THEN options
                  ELSE OptionsFrom(lines, i + 1, options)
             ELSE LET kv == SplitOnceEquals(line)
                  IN  OptionsFrom(lines, i + 1,
                                  (Trim(kv.k) :> Trim(kv.v)) @@ options)

\* options.get(key).cloned().unwrap_or_else(|| default)
OptionOr(options, key, default) ==
    IF key \in DOMAIN options THEN options[key] ELSE default

\* search_modules parse_desktop_file: the read either panics or the entry is
\* built with defaults for what is missing
SmParseDesktopFile(file, path) ==
    IF ~file.readable THEN [panic |-> TRUE, app |-> NoApplication]
    ELSE LET options == OptionsFrom(file.content, 1, <<>>)
         IN  [panic |-> FALSE,
              app |-> [name |-> OptionOr(options, KeyName, UnknownName),
                       exec |-> OptionOr(options, KeyExec, <<>>),
                       terminal |-> OptionOr(options, KeyTerminal, <<>>) = ValueTrue,
                       file_path |-> path]]

\* modules parse_executable_name
ParseExecutableName(exec) ==
    IF SplitWhitespace(exec) = <<>> THEN exec ELSE SplitWhitespace(exec)[1]

\* modules parse_desktop_file: as above, and parse_executable_args indexes
\* parts[0] of the split Exec value
MdParseDesktopFile(file, path) ==
    IF ~file.readable THEN [panic |-> TRUE, app |-> NoApplication]
    ELSE LET options == OptionsFrom(file.content, 1, <<>>)
             exec == OptionOr(options, KeyExec, ExampleCommand)
             parts == SplitWhitespace(exec)
         IN  IF parts = <<>> THEN [panic |-> TRUE, app |-> NoApplication]
             ELSE [panic |-> FALSE,
                   app |-> [name |-> OptionOr(options, KeyName, UnknownName),
                            application_name |-> ParseExecutableName(exec),
                            exec |-> parts[1],
                            terminal |-> OptionOr(options, KeyTerminal, <<>>) = ValueTrue,
                            file_path |-> path]]

\* find_desktop_files from directory entry i on; `modules` selects the parser
RECURSIVE ScanFrom(_, _, _, _)
ScanFrom(files, i, modules, found) ==
    IF i > Len(files) THEN [panic |-> FALSE, apps |-> found]
    ELSE IF files[i].extension # "desktop" THEN ScanFrom(files, i + 1, modules, found)
    ELSE LET parsed == IF modules THEN MdParseDesktopFile(files[i], i)
                       ELSE SmParseDesktopFile(files[i], i)
         IN  IF parsed.panic THEN [panic |-> TRUE, apps |-> <<>>]
             ELSE ScanFrom(files, i + 1, modules, Append(found, parsed.app))

\* directory entries: a complete entry, one with an empty Exec, one without
\* Exec, one that cannot be read (a dangling link), a file of another
\* extension, and an entry with a second section
ScanFileSet ==
    { [extension |-> "desktop", readable |-> TRUE,
       content |-> <<LineDesktopEntry, LineName, LineExec>>],
      [extension |-> "desktop", readable |-> TRUE,
       content |-> <<LineDesktopEntry, LineName, LineExecEmpty>>],
      [extension |-> "desktop", readable |-> TRUE,
       content |-> <<LineComment, LineDesktopEntry, LineName>>],
      [extension |-> "desktop", readable |-> FALSE, content |-> <<>>],
      [extension |-> "txt", readable |-> TRUE, content |-> <<LineName>>],
      [extension |-> "desktop", readable |-> TRUE,
       content |-> <<LineDesktopEntry, LineExecOther, LineTerminal,
                     LineOtherSection, LineExec>>] }

scanFrame ==
    <<rankVars, mdMathsVars, smMathsVars, mdDesktopVars, programVars, launchVars,
      smDesktopVars, uiVars, dispatchVars, listVars>>

\* search_modules::applications::desktop::find_desktop_files
SmFindDesktopFiles ==
    /\ scOutcome = "none"
    /\ LET r == ScanFrom(scFiles, 1, FALSE, <<>>)
       IN  /\ scOutcome' = IF r.panic THEN "panic" ELSE "returned"
           /\ scApps' = r.apps
    /\ UNCHANGED <<scFiles, scanFrame>>

\* modules::applications::desktop::find_desktop_files
MdFindDesktopFiles ==
    /\ scOutcome = "none"
    /\ LET r == ScanFrom(scFiles, 1, TRUE, <<>>)
       IN  /\ scOutcome' = IF r.panic THEN "panic" ELSE "returned"
           /\ scApps' = r.apps
    /\ UNCHANGED <<scFiles, scanFrame>>

InitScan ==
    /\ RankIdle
    /\ MathsIdle
    /\ MdDesktopIdle
    /\ ProgramsIdle
    /\ LaunchIdle
    /\ SmDesktopIdle
    /\ uiProvider = "none"
    /\ UiIdle
    /\ ListIdle
    /\ DispatchIdle
    /\ scFiles \in SeqsUpTo(ScanFileSet, MaxScanFiles)
    /\ scApps = <<>>
    /\ scOutcome = "none"

NextScan ==
    \/ SmFindDesktopFiles
    \/ MdFindDesktopFiles

SpecScan == InitScan /\ [][NextScan]_vars

\* ---- parse_desktop_file on one file, over every short file content
MaxFileLines == 3

LineBlank == <<" ">>

ParseLineSet ==
    {LineDesktopEntry, LineOtherSection, LineName, LineExec, LineExecOther,
     LineTerminal, LineComment, LineBlank}

InitParse ==
    /\ RankIdle
    /\ MathsIdle
    /\ MdDesktopIdle
    /\ ProgramsIdle
    /\ LaunchIdle
    /\ SmDesktopIdle
    /\ uiProvider = "none"
    /\ UiIdle
    /\ ListIdle
    /\ DispatchIdle
    /\ \E content \in SeqsUpTo(ParseLineSet, MaxFileLines) :
          scFiles = <<[extension |-> "desktop", readable |-> TRUE, content |-> content]>>
    /\ scApps = <<>>
    /\ scOutcome = "none"

NextParse == SmFindDesktopFiles

SpecParse == InitParse /\ [][NextParse]_vars

\* ------------------------------------------- the results list (ListState)
MaxResults == 2
MaxSelected == 3
MaxRows == 2

\* usize::saturating_add(1), the count of Down events being capped
SaturatingAdd(a, b) == a + b

\* self.selected.unwrap_or_default()
UnwrapOrDefault(selected) == IF selected = None THEN 0 ELSE selected

listFrame ==
    <<rankVars, mdMathsVars, smMathsVars, mdDesktopVars, programVars, launchVars,
      smDesktopVars, uiVars, dispatchVars, scanVars>>

\* ListState::scroll_up_by(1) / scroll_down_by(1): select(Some(..)) with no
\* upper limit
ScrollUpBy(amount) == lsSelected' = SaturatingSub(UnwrapOrDefault(lsSelected), amount)

ScrollDownBy(amount) == lsSelected' = SaturatingAdd(UnwrapOrDefault(lsSelected), amount)

\* `results[selected]` inside Some(selected), Some(results): the element is
\* cloned into ItemExecute, or the index is out of bounds and the thread
\* panics
ExecuteSelected ==
    IF lsSelected # None /\ lsResultsSome
    THEN IF lsSelected < lsResults
         THEN lsOutcome' = "executed" /\ lsExecuted' = lsSelected
         ELSE lsOutcome' = "panic" /\ lsExecuted' = None
    ELSE lsOutcome' = "ignored" /\ lsExecuted' = None

\* ResultsBox::handle_key_event -> ListState::handle_key_event (key press)
HandleKeyEvent ==
    /\ lsOutcome # "panic"
    /\ rbFocused
    /\ \E code \in {"Up", "Down", "Enter"} :
          CASE code = "Up" ->
                  /\ ScrollUpBy(1)
                  /\ lsOutcome' = "ignored"
                  /\ lsExecuted' = None
            [] code = "Down" ->
                  /\ UnwrapOrDefault(lsSelected) < MaxSelected
                  /\ ScrollDownBy(1)
                  /\ lsOutcome' = "ignored"
                  /\ lsExecuted' = None
            [] code = "Enter" ->
                  /\ ExecuteSelected
                  /\ UNCHANGED lsSelected
    /\ UNCHANGED <<rbResults, rbFocused, lsResultsSome, lsResults, listFrame>>

\* ResultsBox::handle_mouse_event -> ListState::handle_mouse_event; the
\* pointer is inside the list's area or not, on row relative_y of it; offset
\* is 0 throughout (select writes it only to reset it)
HandleMouseEvent ==
    /\ lsOutcome # "panic"
    /\ rbFocused
    /\ IF ~lsResultsSome
       THEN /\ lsOutcome' = "panic"
            /\ lsExecuted' = None
            /\ UNCHANGED lsSelected
       ELSE \E kind \in {"ScrollDown", "ScrollUp", "Moved", "DownLeft", "DownRight"} :
            \E inside \in BOOLEAN, relative_y \in 0..MaxRows :
               CASE kind = "ScrollDown" ->
                       /\ UnwrapOrDefault(lsSelected) < MaxSelected
                       /\ ScrollDownBy(1)
                       /\ lsOutcome' = "ignored"
                       /\ lsExecuted' = None
                 [] kind = "ScrollUp" ->
                       /\ ScrollUpBy(1)
                       /\ lsOutcome' = "ignored"
                       /\ lsExecuted' = None
                 [] kind = "Moved" ->
                       /\ lsSelected' = IF inside /\ relative_y < lsResults
                                        THEN relative_y ELSE None
                       /\ lsOutcome' = "ignored"
                       /\ lsExecuted' = None
                 [] kind = "DownLeft" ->
                       /\ IF inside THEN ExecuteSelected
                          ELSE lsOutcome' = "ignored" /\ lsExecuted' = None
                       /\ UNCHANGED lsSelected
                 [] kind = "DownRight" ->
                       /\ lsOutcome' = "ignored"
                       /\ lsExecuted' = None
                       /\ UNCHANGED lsSelected
    /\ UNCHANGED <<rbResults, rbFocused, lsResultsSome, lsResults, listFrame>>

\* ResultsBox::update(Action::SearchResults(results))
UpdateSearchResults ==
    /\ lsOutcome # "panic"
    /\ \E results \in 0..MaxResults : rbResults' = results
    /\ lsSelected' = 0
    /\ UNCHANGED <<rbFocused, lsResultsSome, lsResults, lsOutcome, lsExecuted, listFrame>>

\* ResultsBox::update(Action::Focus(focus))
UpdateFocus ==
    /\ lsOutcome # "panic"
    /\ \E focus \in {"Search", "Other"} :
          IF focus = "Search" /\ ~rbFocused
          THEN rbFocused' = TRUE /\ UNCHANGED lsSelected
          ELSE IF focus # "Search" /\ rbFocused
          THEN rbFocused' = FALSE /\ lsSelected' = None
          ELSE UNCHANGED <<rbFocused, lsSelected>>
    /\ UNCHANGED <<rbResults, lsResultsSome, lsResults, lsOutcome, lsExecuted, listFrame>>

\* ResultsBox::draw: list_state.set_results(results.clone()), then the render
\* hands ratatui a copy of the selection and keeps its own as it was
Draw ==
    /\ lsOutcome # "panic"
    /\ lsResultsSome' = TRUE
    /\ lsResults' = rbResults
    /\ UNCHANGED <<rbResults, rbFocused, lsSelected, lsOutcome, lsExecuted, listFrame>>

InitList ==
    /\ RankIdle
    /\ MathsIdle
    /\ MdDesktopIdle
    /\ ProgramsIdle
    /\ LaunchIdle
    /\ SmDesktopIdle
    /\ uiProvider = "none"
    /\ UiIdle
    /\ DispatchIdle
    /\ ScanIdle
    /\ rbResults = 0
    /\ rbFocused = TRUE
    /\ lsSelected = None
    /\ lsResultsSome = FALSE
    /\ lsResults = 0
    /\ lsOutcome = "none"
    /\ lsExecuted = None

NextList ==
    \/ HandleKeyEvent
    \/ HandleMouseEvent
    \/ UpdateSearchResults
    \/ UpdateFocus
    \/ Draw

SpecList == InitList /\ [][NextList]_vars


\* ------------------------------------------------- ranker: properties
Matched == {i \in 1..Len(apps) : fuzzy_match(scoreTab, ToLowercase(apps[i]), query) # None}
RawOf(i) == fuzzy_match(scoreTab, ToLowercase(apps[i]), query)
ExactOf(i) == HasExactToken(ToLowercase(apps[i]), ToLowercase(query))
NameLenOf(i) == Len(ToLowercase(apps[i]))
PosOf(i) == CHOOSE p \in 1..Len(output) : output[p].index = i
FinalOf(i) == output[PosOf(i)].score
Listed(i) == \E p \in 1..Len(output) : output[p].index = i

\* C1: the list returned by sort_applications has its scores in
\* non-increasing order from the first to the last element.
C1_DescendingOrder ==
    calls >= 1 =>
        \A p \in 1..(Len(output) - 1) : output[p].score >= output[p + 1].score

\* a call has returned three results spread over more than one score
C1_Witness ==
    /\ calls >= 1
    /\ Len(output) = 3
    /\ output[1].score > output[3].score

\* C2 (as claimed): of two candidates with the same raw score of which exactly
\* one has a name token equal to the lower-cased query, the exact-token one is
\* returned strictly before the other and their final scores differ by 1.
C2_ExactTokenStrictlyFirst ==
    calls >= 1 =>
        \A i, j \in Matched :
            (RawOf(i) = RawOf(j) /\ ExactOf(i) /\ ~ExactOf(j))
                => (PosOf(i) < PosOf(j) /\ FinalOf(i) - FinalOf(j) = 1)

\* C3 (as claimed): of two candidates with the same raw score that both have
\* or both lack an exact query token, the one with the shorter lower-cased
\* name is ranked strictly above the longer one.
C3_ShorterNameStrictlyFirst ==
    calls >= 1 =>
        \A i, j \in Matched :
            (RawOf(i) = RawOf(j) /\ ExactOf(i) = ExactOf(j)
                /\ NameLenOf(i) < NameLenOf(j))
                => (PosOf(i) < PosOf(j) /\ FinalOf(i) > FinalOf(j))

\* C4: two calls of sort_applications on the same unmodified candidate list
\* and query return the same (index, score) pairs in the same order, whatever
\* order the hash map is iterated in by either call.
C4_SameOutputTwice ==
    calls >= 2 => output = prevOutput

\* two calls have returned, each with results in more than one bucket
C4_Witness ==
    /\ calls >= 2
    /\ Len(output) >= 2
    /\ \E p, r \in 1..Len(output) : output[p].score # output[r].score

\* ------------------------------------- ranker: collision resolution
\* the buckets before and after the n-th candidate is inserted
BucketsBefore(n) == BucketsAfter(apps, n - 1, query, scoreTab)

BucketsWith(n) == BucketsAfter(apps, n, query, scoreTab)

Collides(n) == RawOf(n) # None /\ RawOf(n) \in DOMAIN BucketsBefore(n)

CollidingBucket(n) == BucketsBefore(n)[RawOf(n)]

PromotedKey(n) == (RawOf(n) + 1) % U16Modulus

InBucket(results, key, i) == key \in DOMAIN results /\ \E k \in 1..Len(results[key]) : results[key][k] = i

\* the candidate wins against / loses to the member at position k of its bucket
CandidateBeats(n, k) == resolve_same_score(apps[CollidingBucket(n)[k]], apps[n], query) < 0

MemberBeats(n, k) == resolve_same_score(apps[CollidingBucket(n)[k]], apps[n], query) > 0

Positions(n) == 1..Len(CollidingBucket(n))

CandidatePromoted(n) ==
    /\ InBucket(BucketsWith(n), PromotedKey(n), n)
    /\ ~InBucket(BucketsWith(n), RawOf(n), n)

\* member at position k is the only one taken out of the bucket, it is now at
\* score+1, and the candidate closes the original bucket
MemberPromoted(n, k) ==
    LET m == CollidingBucket(n)[k]
    IN  /\ RawOf(n) \in DOMAIN BucketsWith(n)
        /\ BucketsWith(n)[RawOf(n)] = Append(SelectSeq(CollidingBucket(n), LAMBDA i : i # m), n)
        /\ InBucket(BucketsWith(n), PromotedKey(n), m)

\* C19: a colliding candidate that beats at least one member of
\* its bucket is placed at score+1 and not added to the colliding bucket,
\* whatever the bucket holds and in whatever order.
C19_BeatsAnyMemberPromoted ==
    calls >= 1 =>
        \A n \in 1..Len(apps) :
            (Collides(n) /\ \E k \in Positions(n) : CandidateBeats(n, k))
                => CandidatePromoted(n)

C11_FailedSpawnReported ==
    (launchVariant = "common" /\ launchPc = "returned" /\ launchSpawn = "err")
        => launchRet = "false"

\* C12: launching a non-terminal application whose spawn succeeded reports
\* success after at most the settle delay, and launch returns whatever the
\* child does, including never exiting.
C12_ReturnsWithoutWaiting ==
    /\ [](  (/\ launchVariant \in {"common", "modules"}
             /\ ~launchApp.terminal
             /\ launchSpawn = "ok"
             /\ launchPc = "returned")
          => (/\ launchRet \in {"true", "Ok"}
              /\ launchWaited <= (IF launchVariant = "common"
                                  THEN CmSettleDelay ELSE MdSettleDelay)))
    /\ ((launchVariant \in {"common", "modules"} /\ launchPc = "settling")
          ~> (launchPc = "returned"))

\* launch of a non-terminal application has returned success while its child
\* is still running
C12_Witness ==
    /\ launchVariant \in {"common", "modules"}
    /\ ~launchApp.terminal
    /\ launchSpawn = "ok"
    /\ launchPc = "returned"
    /\ launchRet \in {"true", "Ok"}
    /\ launchChild = "running"

\* the Exec string, split on whitespace, without its field codes
ExecMinusFieldCodes(exec) ==
    SelectSeq(SplitWhitespace(exec), LAMBDA token : token \notin EXEC_CODES)

\* C13: the spawned command is the split Exec string minus field codes,
\* program first and arguments in order; a terminal application is wrapped
\* as <terminal> -e <command> <args>, the terminal being $TERMINAL when set.
C13_SpawnedCommand ==
    (launchVariant \in {"common", "legacy"} /\ launchSpawn # "none") =>
        IF launchApp.terminal
        THEN /\ Len(launchArgv) >= 2
             /\ launchEnvTerminal # <<>> => launchArgv[1] = launchEnvTerminal
             /\ launchArgv[2] = DashE
             /\ SubSeq(launchArgv, 3, Len(launchArgv)) = ExecMinusFieldCodes(launchApp.exec)
        ELSE launchArgv = ExecMinusFieldCodes(launchApp.exec)

\* ------------------------------------------- UI projection: properties
\* what a provider holds: stored results, history, candidate list
ProviderState ==
    <<mdEquations, mdResults, smEquations, sdDatabase, sdDataSome, sdApplications, sdResults>>

LabelsAndScores(list) ==
    [k \in 1..Len(list) |-> [result |-> list[k].result, score |-> list[k].score]]

\* C14: a call of get_results / get_ui_results changes no provider state, and
\* two calls with no provider call between them return the same labels and
\* scores in the same order.
C14_PureProjection ==
    /\ [][ (uiViews' = uiViews + 1) => (ProviderState' = ProviderState) ]_vars
    /\ []( (uiViews >= 2 /\ uiAt = uiPreviousAt)
             => LabelsAndScores(uiResults) = LabelsAndScores(uiPrevious) )

\* a provider with stored results was projected twice in a row, non-trivially
C14_Witness ==
    /\ uiViews >= 2
    /\ uiAt = uiPreviousAt
    /\ Len(uiResults) >= 2
    /\ ProviderCalls >= 1

\* C15: the launch callable of a returned ListResult launches the application
\* (name and command) that result was built from, whatever searches or
\* re-initialisations the provider has gone through since.
C15_LaunchCapturedByValue ==
    [][ (uiLaunched = <<>> /\ uiLaunched' # <<>>)
          => uiLaunched'[1] = uiShown[uiHeld'[1]] ]_vars

\* a callable was run after the provider changed, and the entry it was built
\* from now points at another application or at none
C15_Witness ==
    /\ uiLaunched # <<>>
    /\ uiHeld[2] > uiAt
    /\ LaunchTargetByIndex(uiHeld[1], uiResults, sdApplications, sdResults) # uiLaunched[1]

\* ------------------------------------------------ dispatch: properties
\* C16: a Search::Execute event calls on_search on every registered module
\* exactly once, in registration order, with the current query, and returns
\* one (module, candidacy) entry per module in that order, whatever
\* candidacy the earlier modules reported.
C16_EveryModuleOnceInOrder ==
    [][ (hsExecutes' = hsExecutes + 1) =>
          /\ Len(hsCalls') = hsModules
          /\ \A i \in 1..hsModules : hsCalls'[i] = [module |-> i, query |-> hsQuery]
          /\ Len(hsCandidates') = hsModules
          /\ \A i \in 1..hsModules : hsCandidates'[i].index = i
      ]_vars

\* an Execute with a non-empty query in which the first module reported
\* candidacy and the modules after it were still called
C16_Witness ==
    /\ hsExecutes >= 1
    /\ hsQuery # <<>>
    /\ Len(hsCandidates) >= 2
    /\ hsCandidates[1].candidacy
    /\ Len(hsCalls) = Len(hsCandidates)
    /\ hsCalls[Len(hsCalls)].query = hsQuery

\* ---------------------------------------- desktop-file scan: properties
\* a readable .desktop file whose Exec value names a program
SoundEntry(file) ==
    /\ file.extension = "desktop"
    /\ file.readable
    /\ \E i \in 1..Len(file.content) :
          /\ SubSeq(file.content[i], 1, 5) = LineExecEmpty
          /\ Len(file.content[i]) > 5

\* C18: one bad entry never fails the scan: find_desktop_files returns, and
\* what it returns holds every sound entry of the directory.
C18_ScanSurvivesBadEntry ==
    scOutcome # "none" =>
        /\ scOutcome = "returned"
        /\ \A i \in 1..Len(scFiles) :
              SoundEntry(scFiles[i]) =>
                  \E k \in 1..Len(scApps) : scApps[k].file_path = i

\* --------------------------------------- arithmetic providers: properties
IsExpression(q) == ParseOk(FormatQuery(q)) /\ EvalOk(FormatQuery(q))

\* C5 (as claimed, for the search_modules arithmetic provider): search returns
\* false as a normal value, never an error, when the query is empty.
C5_NoResultIsFalseNotError ==
    (smSearches >= 1 /\ smQuery = <<>>) => smRet = "false"

\* C7 (as claimed, for the modules arithmetic provider): a query that is a
\* numeric literal, also when surrounded by whitespace, makes on_search return
\* false and adds no history entry, while "40+2" returns true and leaves
\* Equation{"40+2", "42", valid} at the front of the history.
C7_NumericGuard ==
    [][ (mdSearches' = mdSearches + 1) =>
          /\ ParsesAsF64(Trim(mdQuery')) =>
                (mdRet' = "false" /\ mdEquations' = mdEquations)
          /\ mdQuery' = Str4("4", "0", "+", "2") =>
                /\ mdRet' = "true"
                /\ mdEquations' # <<>>
                /\ mdEquations'[1] =
                     Equation(Str4("4", "0", "+", "2"), Str2("4", "2"), TRUE)
      ]_vars

\* C8 (as claimed, for the modules arithmetic provider): submitting the same
\* valid expression twice in a row does not insert a second history entry.
C8_NoDuplicateEntry ==
    [][ (mdSearches' = mdSearches + 1 /\ mdSearches >= 1
            /\ mdQuery' = mdQuery /\ IsExpression(mdQuery))
          => mdEquations' = mdEquations
      ]_vars

\* C9 (as claimed, for the search_modules arithmetic provider): the history
\* never holds more than 100 equations, and once 101 distinct valid equations
\* have been inserted it holds exactly the 100 most recent ones.
C9_HistoryBound ==
    /\ Len(smEquations) <= HistoryCap
    /\ smSearches >= HistoryCap + 1 =>
          /\ Len(smEquations) = HistoryCap
          /\ \A k \in 1..HistoryCap :
                smEquations[k].expression = DistinctExpr(smSearches - k)

\* C17: after a search with a non-empty query the arithmetic provider's
\* result list is sorted by descending score.
C17_ResultsDescending ==
    (mdSearches >= 1 /\ mdQuery # <<>>) =>
        \A p \in 1..(Len(mdResults) - 1) : mdResults[p].score >= mdResults[p + 1].score

\* ------------------------------------ application providers: properties
\* C6 (as claimed, for the modules desktop-file provider): a search with the
\* empty query leaves the provider's stored results untouched.
C6_EmptyQueryKeepsResults ==
    [][ (ddSearches' = ddSearches + 1 /\ ddQuery' = <<>>)
          => ddResults' = ddResults
      ]_vars

\* -------------------------------------------- program scan: properties
\* the normalization the claim applies to both names: lower-case, and spaces,
\* hyphens and underscores removed
StrippedName(name) ==
    RemoveChar(RemoveChar(RemoveChar(ToLowercase(name), " "), "-"), "_")

ProgramListed(fileName) ==
    \E k \in 1..Len(programs) : programs[k].exec = BinPath(fileName)

\* C10 (as claimed): a binary is listed by find_programs only if no desktop
\* entry has the same name once both names are lower-cased and stripped of
\* spaces, hyphens and underscores, and no desktop entry's Exec contains the
\* binary's path.
C10_ListedOnlyIfNoDesktopMatch ==
    scanned =>
        \A b \in 1..Len(binaries) :
            ProgramListed(binaries[b]) =>
                \A d \in 1..Len(desktopFiles) :
                    /\ StrippedName(FileStem(binaries[b]))
                           # StrippedName(desktopFiles[d].name)
                    /\ ~IsSubstring(BinPath(binaries[b]), desktopFiles[d].exec)


\* --------------------------------------- provider search: properties
\* the last call on the desktop-file or programs provider was a search that
\* returned a value
SearchReturned ==
    /\ uiProvider \in {"sm_desktop", "md_programs"}
    /\ sdSearches >= 1
    /\ sdRet \in {"true", "false"}

\* C21: after any search(q) with a non-empty q on the desktop-file or the
\* programs provider, the stored results equal sort_applications(candidates, q)
\* for that q (the empty list when q matches nothing), never the results of
\* an earlier query.
C21_ResultsRecomputed ==
    (SearchReturned /\ sdQuery # <<>>) =>
        \E order \in IterationOrders(AppNames(sdApplications), sdQuery, LiftedScores) :
            sdResults = sort_applications(AppNames(sdApplications), sdQuery, LiftedScores, order)

\* ------------------------------------ arithmetic candidacy: properties
\* the query is an expression with a result and is not a numeric literal
NonTrivialExpression(q) == q # <<>> /\ IsExpression(q) /\ ~ParsesAsF64(q)

\* C22: every query that parses and evaluates to a result and is not a pure
\* numeric literal makes the arithmetic provider's search return true, on
\* every call, whatever the history already contains.
C22_ExpressionAlwaysCandidate ==
    /\ (smSearches >= 1 /\ NonTrivialExpression(smQuery)) => smRet = "true"
    /\ (mdSearches >= 1 /\ NonTrivialExpression(mdQuery)) => mdRet = "true"


\* the query holds one of + - * / and is not an expression with a result
FailedOperatorQuery(q) ==
    q # <<>> /\ ContainsOperator(FormatQuery(q)) /\ ~IsExpression(q)

\* C23: a query that contains at least one of + - * / but fails to parse or
\* evaluate still makes the arithmetic provider's search return true, and
\* the call adds no entry to the history.
C23_FailedOperatorQueryIsCandidate ==
    [][ /\ (smSearches' = smSearches + 1 /\ FailedOperatorQuery(smQuery')) =>
              (smRet' = "true" /\ smEquations' = smEquations)
        /\ (mdSearches' = mdSearches + 1 /\ FailedOperatorQuery(mdQuery')) =>
              (mdRet' = "true" /\ mdEquations' = mdEquations)
      ]_vars


\* ------------------------------- desktop-file provider without a database
\* C24: while no database handle is registered on the desktop-file provider,
\* init returns an error and leaves the provider's data and results
\* unchanged, and a search with a non-empty query returns an error value
\* and does not abort the process.
C24_MissingDatabaseIsAnError ==
    [][ (uiProvider = "sm_desktop" /\ ~sdDatabase) =>
          /\ (sdInits' = sdInits + 1) =>
                /\ sdRet' = "err"
                /\ sdDataSome' = sdDataSome
                /\ sdApplications' = sdApplications
                /\ sdResults' = sdResults
          /\ (sdSearches' = sdSearches + 1 /\ sdQuery' # <<>>) => sdRet' = "err"
      ]_vars


\* ------------------------------------------ parse_desktop_file: properties
\* the Key=Value lines of the [Desktop Entry] section: those after its
\* header and before any other bracketed header, comments and blank lines
\* left out
RECURSIVE SectionFrom(_, _, _, _)
SectionFrom(lines, i, inside, acc) ==
    IF i > Len(lines) THEN acc
    ELSE LET line == lines[i]
         IN  IF StartsWith(line, "[") /\ EndsWith(line, "]")
             THEN IF line = LineDesktopEntry
                  THEN SectionFrom(lines, i + 1, TRUE, acc)
                  ELSE acc
             ELSE IF StartsWith(line, "#") \/ Trim(line) = <<>> \/ ~inside
             THEN SectionFrom(lines, i + 1, inside, acc)
             ELSE SectionFrom(lines, i + 1, inside, Append(acc, line))

SectionLines(content) == SectionFrom(content, 1, FALSE, <<>>)

SectionOnly(content) ==
    [extension |-> "desktop", readable |-> TRUE,
     content |-> <<LineDesktopEntry>> \o SectionLines(content)]

SectionHasKey(content, key) ==
    \E k \in 1..Len(SectionLines(content)) :
        Trim(SplitOnceEquals(SectionLines(content)[k]).k) = key

\* C25: parse_desktop_file takes values only from the Key=Value lines inside
\* the [Desktop Entry] section: the parsed Application is the one the
\* section's lines alone give, whatever stands before the header or after
\* another section header, comments and blank lines are ignored, and a
\* missing Name yields the name "Unknown".
C25_OnlyDesktopEntrySection ==
    (scOutcome = "returned" /\ Len(scFiles) = 1 /\ Len(scApps) = 1) =>
        /\ scApps[1] = SmParseDesktopFile(SectionOnly(scFiles[1].content), 1).app
        /\ ~SectionHasKey(scFiles[1].content, KeyName) => scApps[1].name = UnknownName


\* ------------------------------------------ ranker: candidates preserved
\* the output positions that hold candidate i
PositionsOf(i) == {p \in 1..Len(output) : output[p].index = i}

\* candidate i changed bucket: its final score is not its raw score
Moved(i) == i \in Matched /\ Listed(i) /\ FinalOf(i) # RawOf(i)

\* C26: sort_applications neither loses nor duplicates candidates: its output
\* holds every candidate index whose name fuzzy-matches the query exactly
\* once, and no index whose name does not match, duplicate names included.
C26_EachMatchExactlyOnce ==
    calls >= 1 =>
        /\ \A i \in Matched : Cardinality(PositionsOf(i)) = 1
        /\ \A p \in 1..Len(output) : output[p].index \in Matched

\* two candidates of the same name both matched, a candidate was moved to
\* another bucket by a collision, and a candidate did not match
C26_Witness ==
    /\ calls >= 1
    /\ \E i, j \in Matched : i # j /\ apps[i] = apps[j]
    /\ \E i \in Matched : Moved(i)
    /\ Matched # 1..Len(apps)


\* ------------------------------------------- ranker: depth of promotion
\* the key of the bucket that holds candidate i
KeyIn(results, i) == CHOOSE key \in DOMAIN results : InBucket(results, key, i)

\* the earlier candidates that the n-th insertion moved to another bucket
MovedBy(n) ==
    {i \in 1..(n - 1) : RawOf(i) # None /\ KeyIn(BucketsWith(n), i) # KeyIn(BucketsBefore(n), i)}

\* C27 (as claimed): promotion is single-level: in the output of
\* sort_applications every candidate's final score is its raw fuzzy score or
\* its raw score + 1, never more.
C27_FinalIsRawOrRawPlusOne ==
    calls >= 1 =>
        \A i \in Matched : FinalOf(i) \in {RawOf(i), RawOf(i) + 1}

\* C27 (amended): promotion is one bucket at a time. Each insertion places
\* the new candidate at its raw score or one above it and moves at most one
\* earlier candidate, from the bucket it is in to the next one; a final
\* score is therefore at least the raw score and exceeds it by at most the
\* number of other matched candidates.
C27_PromotionOneBucketAtATime ==
    calls >= 1 =>
        /\ \A n \in Matched :
              /\ KeyIn(BucketsWith(n), n) \in {RawOf(n), PromotedKey(n)}
              /\ Cardinality(MovedBy(n)) <= 1
              /\ \A i \in MovedBy(n) :
                    KeyIn(BucketsWith(n), i) = KeyIn(BucketsBefore(n), i) + 1
        /\ \A i \in Matched :
              /\ FinalOf(i) >= RawOf(i)
              /\ FinalOf(i) - RawOf(i) <= Cardinality(Matched) - 1

\* a candidate was promoted twice: it ends two above its raw score
C27_Witness ==
    /\ calls >= 1
    /\ \E i \in Matched : FinalOf(i) = RawOf(i) + 2


\* ------------------------------------- ranker: winners never rank lower
\* candidate a beats candidate b under resolve_same_score
Beats(a, b) == resolve_same_score(apps[a], apps[b], query) > 0

\* C28: sort_applications never ranks a candidate strictly below another
\* candidate of the same raw fuzzy score that it beats under
\* resolve_same_score: if a beats b and raw(a) = raw(b) then the final score
\* of a is at least the final score of b.
C28_WinnerNotBelowLoser ==
    calls >= 1 =>
        \A a, b \in Matched :
            (Beats(a, b) /\ RawOf(a) = RawOf(b)) => FinalOf(a) >= FinalOf(b)


\* ------------------------------------------------ results list: properties
\* C29: after any sequence of Up/Down key events, scroll events and
\* SearchResults updates (an update with an empty list included), the
\* selected index is None or a valid index into the current results, so
\* Enter or a left click emits ItemExecute for an existing result or does
\* nothing, and never indexes out of bounds.
C29_SelectionInBounds ==
    /\ lsSelected # None => lsSelected < rbResults
    /\ lsOutcome # "panic"
    /\ lsOutcome = "executed" => lsExecuted < lsResults


\* ------------------------------------------------------ caret: properties
\* C30: after any sequence of Search Add, Search Remove and Navigate
\* Left/Right/Home/End events the caret position is within 0..=len(query),
\* and no unsigned-integer operation underflows: Navigate Left at caret
\* position 0 leaves the caret at 0 without underflow.
C30_CaretInRangeNoUnderflow ==
    /\ hsCaret \in 0..Len(hsQuery)
    /\ hsArith = "ok"

====
